---- MODULE Spec2Model ----
(***************************************************************************)
(* Island partitioning of the entity graph (island_manager) and the        *)
(* cooperative scheduling of island workers (island_worker,                *)
(* island_worker_context) of EntityDynamics.                               *)
(*                                                                         *)
(* Entities are kept in three disjoint id spaces: rigid bodies (graph      *)
(* nodes), constraints/manifolds (graph edges) and islands.  0 stands for  *)
(* entt::null.                                                             *)
(***************************************************************************)
EXTENDS Integers, Sequences, FiniteSets, TLC

\* Bounds of the model.
MaxNodes == 3
MaxEdges == 2
MaxTime == 4
\* Graph changes the application makes between two updates.
MaxBatch == 2
\* Graph changes the application makes in all.
MaxChanges == 7

NodeIds == 1..MaxNodes
EdgeIds == 1..MaxEdges
Null == 0
NoEdge == <<>>
Kinds == {"dynamic", "static", "kinematic"}

VARIABLES
    registry,   \* the entt registry: tags and island components
    graph,      \* the entity_graph stored in the registry context
    manager,    \* the private members of island_manager
    batch,      \* history: the graph changes made since the last update
    changes,    \* history: the graph changes made in all
    last_destroyed, \* history: the body the last step destroyed, with its edges
    worker,     \* the members of the island_worker
    queue,      \* the message queue from the coordinator to the worker
    outbox,     \* the split_island messages on their way to the coordinator
    dispatcher, \* the job dispatcher: the worker's job, queued and running
    coordinator,    \* the coordinator's thread and the island_worker_context
    history,    \* history: the messages handled, the step, the parking
    importing,  \* on_island_delta: the delta, the receiving graph, the position
    stores,  \* the coordinator's store, the worker's registry, deltas in flight
    loop,  \* parallel_for: the pool of for-loops, the counter, the jobs
    sleep,  \* one island under the three put-to-sleep routines and the solver
    broadphase,  \* bodies, their collision filters and the manifolds of broadphase_main
    contacts,  \* the contact points of one manifold under the narrowphase
    rowcache,  \* the row cache of the solver with the rows of the contact and spin constraints
    stepper,  \* the clock, the settings of the coordinator and one island worker with its queue
    ecs,  \* the components of the entities of the user's registry, by name
    s11n,  \* a vector of bool, the archive it is written to and the vector read back
    motion,  \* the velocity, acceleration and dynamic tag of the entities that integrate_linacc visits
    dirties,  \* the dirty components of two entities, their islands and what each island was sent
    echo,  \* a worker and the coordinator exchanging deltas of created and destroyed entities
    pfor   \* the jobs of one parallel_for and its context

manager_vars == <<registry, graph, manager, batch, changes, last_destroyed>>
worker_vars == <<worker, queue, outbox, dispatcher, coordinator, history>>
later_vars == <<importing, stores, loop, sleep, broadphase, contacts, rowcache, stepper, ecs, s11n, motion, dirties, echo, pfor>>
vars == <<registry, graph, manager, batch, changes, last_destroyed,
          worker, queue, outbox, dispatcher, coordinator, history, importing,
          stores,
          loop,
          sleep,
          broadphase,
          contacts,
          rowcache,
          stepper,
          ecs,
          s11n,
          motion,
          dirties,
          echo,
          pfor>>

(***************************************************************************)
(* entity_graph.  Nodes are connecting (dynamic bodies) or non-connecting  *)
(* (static and kinematic bodies); a traversal visits a non-connecting node *)
(* but never continues through it.                                         *)
(***************************************************************************)
edge_nodes(g, e) == g.edges[e]

has_edge(g, e) == e \in DOMAIN g.edges /\ g.edges[e] # NoEdge

visit_edges(g, n) ==
    {e \in EdgeIds : has_edge(g, e) /\ (g.edges[e][1] = n \/ g.edges[e][2] = n)}

other_node(g, e, n) == IF g.edges[e][1] = n THEN g.edges[e][2] ELSE g.edges[e][1]

visit_neighbors(g, n) == {other_node(g, e, n) : e \in visit_edges(g, n)}

insert_node(g, n, non_connecting) ==
    [g EXCEPT !.nodes = @ \cup {n},
              !.non_connecting = IF non_connecting THEN @ \cup {n} ELSE @ \ {n}]

insert_edge(g, e, n0, n1) == [g EXCEPT !.edges[e] = <<n0, n1>>]

remove_edge(g, e) == [g EXCEPT !.edges[e] = NoEdge]

remove_all_edges(g, n) ==
    [g EXCEPT !.edges = [e \in EdgeIds |-> IF e \in visit_edges(g, n) THEN NoEdge ELSE @[e]]]

remove_node(g, n) ==
    [g EXCEPT !.nodes = @ \ {n}, !.non_connecting = @ \ {n}]

\* The nodes a traversal from `frontier` visits: it walks on from connecting
\* nodes only.
RECURSIVE traverse_nodes(_, _, _)
traverse_nodes(g, frontier, seen) ==
    IF frontier = {} THEN seen
    ELSE LET n == CHOOSE x \in frontier : TRUE
             next == IF n \in g.non_connecting THEN {}
                     ELSE visit_neighbors(g, n) \ (seen \cup frontier)
         IN traverse_nodes(g, (frontier \ {n}) \cup next, seen \cup {n})

\* traverse(start, visit_node, visit_edge): the nodes and edges handed to the
\* two callbacks.
traverse(g, start) ==
    LET ns == traverse_nodes(g, {start}, {})
    IN [nodes |-> ns,
        edges |-> UNION {visit_edges(g, n) : n \in ns \ g.non_connecting}]

(***************************************************************************)
(* The registry as island_manager reads and writes it.                     *)
(*   kind[n]        the body's tag, "none" when the entity is not valid    *)
(*   edge_valid     the valid constraint/manifold entities                 *)
(*   node_island[n] island_resident.island_entity of a procedural node     *)
(*   edge_island[e] island_resident.island_entity of an edge               *)
(*   multi[n]       multi_island_resident.island_entities                  *)
(*   islands[i]     the island component of every valid island entity      *)
(*   sleeping_*     the entities that carry sleeping_tag                   *)
(*   moving         bodies whose linvel or angvel exceeds its threshold    *)
(*   fault          a lookup of a null or destroyed entity has aborted     *)
(***************************************************************************)
NoTime == -1

\* island_time_to_sleep, in the unit the model counts time in.
island_time_to_sleep == 1

procedural(R, n) == R.kind[n] = "dynamic"

valid_island(R, i) == i \in DOMAIN R.islands

new_island == [nodes |-> {}, edges |-> {}, sleep_timestamp |-> NoTime]

SetMin(S) == CHOOSE x \in S : \A y \in S : x <= y
SetMax(S) == CHOOSE x \in S : \A y \in S : y <= x

\* Every island id some component or collection still mentions.
island_refs(R, M) ==
    DOMAIN R.islands \cup {R.node_island[n] : n \in NodeIds}
        \cup {R.edge_island[e] : e \in EdgeIds}
        \cup UNION {R.multi[n] : n \in NodeIds}
        \cup M.islands_to_split \cup M.islands_to_wake_up \cup {Null}

\* registry.create(): an identifier no live reference can be confused with.
registry_create(R, M) ==
    SetMin({i \in 1..(Cardinality(island_refs(R, M)) + 1) : i \notin island_refs(R, M)})

aborted(R) == [R EXCEPT !.fault = TRUE]

wake_up_island(R, i) ==
    IF i \notin R.sleeping_islands THEN R
    ELSE [R EXCEPT !.sleeping_islands = @ \ {i},
                   !.sleeping_nodes = @ \ R.islands[i].nodes,
                   !.sleeping_edges = @ \ R.islands[i].edges]

create_island(R, i) == [R EXCEPT !.islands = [j \in DOMAIN @ \cup {i} |->
                                     IF j = i THEN new_island ELSE @[j]]]

insert_to_island(R, i, nodes, edges) ==
    IF ~valid_island(R, i) THEN aborted(R)
    ELSE wake_up_island(
        [R EXCEPT
            !.node_island = [n \in NodeIds |->
                IF n \in nodes /\ procedural(R, n) THEN i ELSE @[n]],
            !.multi = [n \in NodeIds |->
                IF n \in nodes /\ ~procedural(R, n) THEN @[n] \cup {i} ELSE @[n]],
            !.edge_island = [e \in EdgeIds |-> IF e \in edges THEN i ELSE @[e]],
            !.islands[i].nodes = @ \cup nodes,
            !.islands[i].edges = @ \cup edges,
            !.sleeping_nodes = @ \ nodes,
            !.sleeping_edges = @ \ edges], i)

island_size(R, i) == Cardinality(R.islands[i].nodes) + Cardinality(R.islands[i].edges)

\* merge_islands with `size > biggest_size` turned round.
smallest_island(R, island_entities, pref) ==
    LET best == {i \in island_entities :
                    \A j \in island_entities : island_size(R, i) <= island_size(R, j)}
    IN IF pref = "lo" THEN SetMin(best) ELSE SetMax(best)
\* The loop of merge_islands keeps the first island of the greatest size; the
\* order of island_entities is the order the traversal met the islands in.
\* `pref` chooses which end of that order wins a tie.
biggest_island(R, island_entities, pref) ==
    LET best == {i \in island_entities :
                    \A j \in island_entities : island_size(R, j) <= island_size(R, i)}
    IN IF pref = "lo" THEN SetMin(best) ELSE SetMax(best)

merge_islands(R, island_entities, new_nodes, new_edges, pref) ==
    IF \E i \in island_entities : ~valid_island(R, i) THEN aborted(R)
    ELSE IF \A i \in island_entities : island_size(R, i) = 0 THEN aborted(R)
    ELSE
    LET island_entity == biggest_island(R, island_entities, pref)
        other_island_entities == island_entities \ {island_entity}
        all_nodes == new_nodes \cup UNION {R.islands[o].nodes : o \in other_island_entities}
        all_edges == new_edges \cup UNION {R.islands[o].edges : o \in other_island_entities}
        R1 == insert_to_island(R, island_entity, all_nodes, all_edges)
    IN [R1 EXCEPT
            !.islands = [j \in DOMAIN @ \ other_island_entities |-> @[j]],
            !.sleeping_islands = @ \ other_island_entities,
            !.multi = [n \in NodeIds |-> @[n] \ other_island_entities]]

(***************************************************************************)
(* island_manager::init_new_nodes_and_edges.  entity_graph::reach starts a *)
(* traversal at every seed not visited yet, asks should_visit_func about   *)
(* every node before it visits it, the seed included, calls                *)
(* visit_node_func on each node it visits, visit_edge_func on each edge of *)
(* a visited node, and connected_component_func when a traversal ends; so  *)
(* a component touches the island of its seed as it touches the island of  *)
(* any other node the traversal stops at.                                  *)
(***************************************************************************)
\* should_visit_func that lets the traversal go on through a non-procedural
\* node.
should_visit_func_crosses(g, R, m) ==
    IF ~procedural(R, m) THEN TRUE
    ELSE IF R.node_island[m] = Null THEN TRUE
    ELSE \E e \in visit_edges(g, m) : R.edge_island[e] = Null
should_visit_func(g, R, m) ==
    IF ~procedural(R, m) THEN FALSE
    ELSE IF R.node_island[m] = Null THEN TRUE
    ELSE \E e \in visit_edges(g, m) : R.edge_island[e] = Null

\* visit_node_func without its push_back.
visit_node_func_collects_nothing(R, n) == {}
\* What visit_node_func adds to connected_nodes.
visit_node_func(R, n) == IF R.node_island[n] = Null THEN {n} ELSE {}

RECURSIVE reach_component(_, _, _)
reach_component(g, R, st) ==
    IF st.to_visit = {} THEN st
    ELSE LET n == CHOOSE x \in st.to_visit : TRUE
             examined == visit_neighbors(g, n) \ st.visited
             es == visit_edges(g, n) \ st.visited_edges
             push == {m \in examined : should_visit_func(g, R, m)}
         IN reach_component(g, R,
              [to_visit |-> (st.to_visit \ {n}) \cup push,
               visited |-> st.visited \cup {n} \cup push,
               visited_edges |-> st.visited_edges \cup es,
               connected_nodes |-> st.connected_nodes \cup visit_node_func(R, n)
                    \cup {m \in examined : ~procedural(R, m)},
               connected_edges |-> st.connected_edges
                    \cup {e \in es : R.edge_island[e] = Null},
               island_entities |-> st.island_entities
                    \cup {R.node_island[m] : m \in
                            {x \in examined : procedural(R, x) /\ R.node_island[x] # Null}}
                    \cup {R.edge_island[e] : e \in {x \in es : R.edge_island[x] # Null}}])

\* connected_component_func without its call of merge_islands.
connected_component_func_inserts_only(R, M, c, pref) ==
    IF c.island_entities = {}
    THEN LET island_entity == registry_create(R, M)
         IN insert_to_island(create_island(R, island_entity), island_entity,
                             c.connected_nodes, c.connected_edges)
    ELSE insert_to_island(R, SetMin(c.island_entities),
                          c.connected_nodes, c.connected_edges)
connected_component_func(R, M, c, pref) ==
    IF Cardinality(c.island_entities) <= 1
    THEN IF c.island_entities = {}
         THEN LET island_entity == registry_create(R, M)
              IN insert_to_island(create_island(R, island_entity), island_entity,
                                  c.connected_nodes, c.connected_edges)
         ELSE insert_to_island(R, CHOOSE i \in c.island_entities : TRUE,
                               c.connected_nodes, c.connected_edges)
    ELSE merge_islands(R, c.island_entities, c.connected_nodes, c.connected_edges, pref)

\* The island should_visit_func collects when reach asks it about a seed.
seed_islands(R, s) ==
    IF procedural(R, s) /\ R.node_island[s] # Null THEN {R.node_island[s]} ELSE {}

RECURSIVE reach(_, _, _, _, _, _, _)
reach(g, R, M, seeds, visited, visited_edges, pref) ==
    IF seeds = {} \/ R.fault THEN R
    ELSE LET s == SetMin(seeds)
         IN IF s \in visited
            THEN reach(g, R, M, seeds \ {s}, visited, visited_edges, pref)
            ELSE LET c == reach_component(g, R,
                            [to_visit |-> {s}, visited |-> visited \cup {s},
                             visited_edges |-> visited_edges,
                             connected_nodes |-> {}, connected_edges |-> {},
                             island_entities |-> seed_islands(R, s)])
                 IN reach(g, connected_component_func(R, M, c, pref), M,
                          seeds \ {s}, c.visited, c.visited_edges, pref)

valid_node(R, n) == R.kind[n] # "none"

init_new_nodes_and_edges(g, R, M, pref) ==
    LET new_graph_nodes == {n \in M.new_graph_nodes : valid_node(R, n)}
        new_graph_edges == {e \in M.new_graph_edges : e \in R.edge_valid}
        procedural_node_indices ==
            {n \in new_graph_nodes : procedural(R, n)}
            \cup {n \in NodeIds : procedural(R, n) /\ \E e \in new_graph_edges :
                        has_edge(g, e) /\ n \in {edge_nodes(g, e)[1], edge_nodes(g, e)[2]}}
    IN [R |-> reach(g, R, M, procedural_node_indices, {}, {}, pref),
        M |-> [M EXCEPT !.new_graph_nodes = {}, !.new_graph_edges = {}]]

(***************************************************************************)
(* island_manager::split_islands.                                          *)
(***************************************************************************)
destroy_island(R, i) ==
    [R EXCEPT !.islands = [j \in DOMAIN @ \ {i} |-> @[j]],
              !.sleeping_islands = @ \ {i}]

\* `for (auto entity : island.nodes)` picks the first procedural node in the
\* iteration order of the sparse set; `pick` chooses an end of that order.
first_of(S, pick) == IF pick = "lo" THEN SetMin(S) ELSE SetMax(S)

\* The while loop over all_nodes: a fresh island for every component left.
RECURSIVE move_remaining_nodes(_, _, _, _, _)
move_remaining_nodes(g, R, M, all_nodes, pick) ==
    IF all_nodes = {} THEN R
    ELSE LET island_entity_new == registry_create(R, M)
             t == traverse(g, first_of(all_nodes, pick))
             R1 == create_island(R, island_entity_new)
             R2 == [R1 EXCEPT
                     !.islands[island_entity_new].nodes = t.nodes,
                     !.islands[island_entity_new].edges = t.edges,
                     !.node_island = [n \in NodeIds |->
                         IF n \in t.nodes /\ procedural(R, n)
                         THEN island_entity_new ELSE @[n]],
                     !.multi = [n \in NodeIds |->
                         IF n \in t.nodes /\ ~procedural(R, n)
                         THEN @[n] \cup {island_entity_new} ELSE @[n]],
                     !.edge_island = [e \in EdgeIds |->
                         IF e \in t.edges THEN island_entity_new ELSE @[e]]]
         IN move_remaining_nodes(g, R2, M, all_nodes \ t.nodes, pick)

\* split_islands with `island.nodes.size() == connected_nodes.size()` taken
\* as true for every island that still has a procedural node.
split_island_keeps_all(g, R, M, island_entity, pick, intact) ==
    IF {n \in R.islands[island_entity].nodes : procedural(R, n)} = {}
    THEN destroy_island(R, island_entity)
    ELSE wake_up_island(R, island_entity)
\* One round of the loop over m_islands_to_split.  `intact` tells whether
\* island.nodes, read after the island entity was destroyed, still holds the
\* nodes of the destroyed island.
split_island(g, R, M, island_entity, pick, intact) ==
    LET island == R.islands[island_entity]
        procs == {n \in island.nodes : procedural(R, n)}
    IN IF procs = {}
       THEN LET R1 == destroy_island(R, island_entity)
            IN IF intact
               THEN [R1 EXCEPT !.multi = [n \in NodeIds |->
                        IF n \in island.nodes THEN @[n] \ {island_entity} ELSE @[n]]]
               ELSE R1
       ELSE LET t == traverse(g, first_of(procs, pick))
                R1 == wake_up_island(R, island_entity)
            IN IF Cardinality(island.nodes) = Cardinality(t.nodes) THEN R1
               ELSE LET all_nodes == island.nodes \ t.nodes
                        R2 == [R1 EXCEPT
                                !.islands[island_entity].nodes = t.nodes,
                                !.islands[island_entity].edges = t.edges,
                                !.multi = [n \in NodeIds |->
                                    IF n \in all_nodes /\ ~procedural(R, n)
                                    THEN @[n] \ {island_entity} ELSE @[n]]]
                    IN move_remaining_nodes(g, R2, M,
                            {n \in all_nodes : procedural(R, n)}, pick)

RECURSIVE split_each(_, _, _, _, _, _)
split_each(g, R, M, todo, pick, intact) ==
    IF todo = {} THEN R
    ELSE LET i == SetMin(todo)
         IN split_each(g, split_island(g, R, M, i, pick, intact), M,
                       todo \ {i}, pick, intact)

\* split_islands that only clears m_islands_to_split.
split_islands_cleared(g, R, M, pick, intact) ==
    [R |-> R, M |-> [M EXCEPT !.islands_to_split = {}]]
split_islands(g, R, M, pick, intact) ==
    LET islands_to_split == {i \in M.islands_to_split : valid_island(R, i)}
    IN [R |-> split_each(g, R, M, islands_to_split, pick, intact),
        M |-> [M EXCEPT !.islands_to_split = {}]]

(***************************************************************************)
(* Sleeping.                                                               *)
(***************************************************************************)
wake_up_islands(R, M) ==
    LET RECURSIVE wake(_, _)
        wake(RR, todo) ==
            IF todo = {} THEN RR
            ELSE LET i == SetMin(todo)
                 IN wake(IF valid_island(RR, i) THEN wake_up_island(RR, i) ELSE RR,
                         todo \ {i})
    IN [R |-> wake(R, M.islands_to_wake_up),
        M |-> [M EXCEPT !.islands_to_wake_up = {}]]

could_go_to_sleep(R, i) ==
    /\ i \notin R.sleeping_islands
    /\ R.islands[i].nodes \cap R.sleeping_disabled = {}
    /\ R.islands[i].nodes \cap R.moving = {}

\* The islands put_islands_to_sleep tags in this call.
islands_put_to_sleep(R, M) ==
    {i \in DOMAIN R.islands :
        /\ could_go_to_sleep(R, i)
        /\ R.islands[i].sleep_timestamp # NoTime
        /\ M.last_time - R.islands[i].sleep_timestamp > island_time_to_sleep}

put_to_sleep(R, S) ==
    LET nodes == UNION {{n \in R.islands[i].nodes : procedural(R, n)} : i \in S}
        edges == UNION {R.islands[i].edges : i \in S}
    IN [R EXCEPT !.sleeping_islands = @ \cup S,
                 !.sleeping_nodes = @ \cup nodes,
                 !.sleeping_edges = @ \cup edges,
                 !.moving = @ \ nodes]

put_islands_to_sleep(R, M) ==
    LET S == islands_put_to_sleep(R, M)
        R1 == [R EXCEPT !.islands = [i \in DOMAIN @ |->
                 IF i \in R.sleeping_islands THEN @[i]
                 ELSE IF ~could_go_to_sleep(R, i) \/ i \in S
                      THEN [@[i] EXCEPT !.sleep_timestamp = NoTime]
                 ELSE IF @[i].sleep_timestamp = NoTime
                      THEN [@[i] EXCEPT !.sleep_timestamp = M.last_time]
                 ELSE @[i]]]
    IN put_to_sleep(R1, S)

(***************************************************************************)
(* island_manager::update.                                                 *)
(***************************************************************************)
\* Island entities are opaque handles: the state reached is the same whatever
\* identifiers registry.create() handed out.  After an update the islands are
\* renumbered by their smallest member, and every identifier of a destroyed
\* island that is still stored somewhere becomes one identifier past the valid
\* ones.
island_key(R, i) ==
    IF R.islands[i].nodes = {} THEN MaxNodes + 1 ELSE SetMin(R.islands[i].nodes)

island_rank(R, i) ==
    1 + Cardinality({j \in DOMAIN R.islands :
            \/ island_key(R, j) < island_key(R, i)
            \/ island_key(R, j) = island_key(R, i) /\ j < i})

renumber(R, i) ==
    IF i = Null THEN Null
    ELSE IF valid_island(R, i) THEN island_rank(R, i)
    ELSE Cardinality(DOMAIN R.islands) + 1

renumbered(R) ==
    [R EXCEPT
        !.islands = [k \in {island_rank(R, i) : i \in DOMAIN R.islands} |->
                        R.islands[CHOOSE i \in DOMAIN R.islands : island_rank(R, i) = k]],
        !.node_island = [n \in NodeIds |-> renumber(R, @[n])],
        !.edge_island = [e \in EdgeIds |-> renumber(R, @[e])],
        !.multi = [n \in NodeIds |-> {renumber(R, i) : i \in @[n]}],
        !.sleeping_islands = {renumber(R, i) : i \in @}]

update(g, R, M, timestamp, pref, pick, intact) ==
    LET a == wake_up_islands(R, M)
        b == init_new_nodes_and_edges(g, a.R, a.M, pref)
        c == IF b.R.fault THEN b ELSE split_islands(g, b.R, b.M, pick, intact)
        d == IF c.R.fault THEN c.R ELSE put_islands_to_sleep(c.R, c.M)
    IN [R |-> d, M |-> [c.M EXCEPT !.last_time = timestamp]]

(***************************************************************************)
(* The signal handlers island_manager connects to the registry.            *)
(***************************************************************************)
on_construct_graph_node(R, M, n) ==
    [R |-> [R EXCEPT !.node_island[n] = Null, !.multi[n] = {}],
     M |-> [M EXCEPT !.new_graph_nodes = @ \cup {n}]]

on_construct_graph_edge(R, M, e) ==
    [R |-> [R EXCEPT !.edge_island[e] = Null],
     M |-> [M EXCEPT !.new_graph_edges = @ \cup {e}]]

\* `isle` is resident.island_entity of the entity being destroyed.  A null or
\* destroyed island makes registry.get<island> an invalid lookup: the process
\* aborts, or (`ub` = "continue") the lookup yields an object that holds
\* nothing of the model's state.
on_destroy_island_resident(R, M, isle, nodes, edges, ub) ==
    IF ~valid_island(R, isle)
    THEN [R |-> IF ub = "abort" THEN aborted(R) ELSE R, M |-> M]
    ELSE [R |-> [R EXCEPT !.islands[isle].nodes = @ \ nodes,
                          !.islands[isle].edges =
                              IF nodes \cap R.islands[isle].nodes # {} THEN @ ELSE @ \ edges],
          M |-> [M EXCEPT !.islands_to_split = @ \cup {isle},
                          !.islands_to_wake_up = @ \cup {isle}]]

on_destroy_multi_island_resident(R, M, n, ub) ==
    IF \E i \in R.multi[n] : ~valid_island(R, i)
    THEN [R |-> IF ub = "abort" THEN aborted(R)
                ELSE [R EXCEPT !.islands = [i \in DOMAIN @ |->
                        [@[i] EXCEPT !.nodes = IF i \in R.multi[n] THEN @ \ {n} ELSE @]]],
          M |-> [M EXCEPT !.islands_to_wake_up = @ \cup R.multi[n]]]
    ELSE [R |-> [R EXCEPT !.islands = [i \in DOMAIN @ |->
                    [@[i] EXCEPT !.nodes = IF i \in R.multi[n] THEN @ \ {n} ELSE @]]],
          M |-> [M EXCEPT !.islands_to_wake_up = @ \cup R.multi[n]]]

\* registry.destroy(edge): the components of the edge entity go away.
destroy_edge_entity(R, e) ==
    [R EXCEPT !.edge_valid = @ \ {e}, !.edge_island[e] = Null,
              !.sleeping_edges = @ \ {e}]

destroy_node_entity(R, n) ==
    [R EXCEPT !.kind[n] = "none", !.node_island[n] = Null, !.multi[n] = {},
              !.sleeping_nodes = @ \ {n}, !.moving = @ \ {n},
              !.sleeping_disabled = @ \ {n}]

\* on_destroy_graph_node without its loop over the edges of the node.
destroy_no_edges(R, M, es, ub) == [R |-> R, M |-> M]
\* registry.destroy(e) for every edge of `es`, one after the other, with
\* on_destroy<graph_edge> disconnected (on_destroy_graph_node) or not.
RECURSIVE destroy_edges(_, _, _, _)
destroy_edges(R, M, es, ub) ==
    IF es = {} \/ R.fault THEN [R |-> R, M |-> M]
    ELSE LET e == SetMin(es)
             a == on_destroy_island_resident(R, M, R.edge_island[e], {}, {e}, ub)
         IN destroy_edges(destroy_edge_entity(a.R, e), a.M, es \ {e}, ub)

\* on_destroy_graph_node: the edges of the node are destroyed with it.
on_destroy_graph_node(g, R, M, n, ub) ==
    LET a == destroy_edges(R, M, visit_edges(g, n), ub)
    IN [R |-> a.R, M |-> a.M, g |-> remove_node(remove_all_edges(g, n), n)]

on_destroy_graph_edge(g, e) == remove_edge(g, e)

(***************************************************************************)
(* State and operations.                                                   *)
(***************************************************************************)
(* island_worker, island_worker_context and the scheduling side of         *)
(* island_coordinator, for one island.  The worker's job sits in the job   *)
(* dispatcher, an invocation of it runs island_worker_func; the            *)
(* coordinator runs on the main thread.  The physics of a step is left     *)
(* out: whether a step is due, whether a phase runs asynchronously,        *)
(* whether the island falls asleep or asks for a split are inputs.         *)
(***************************************************************************)
\* Messages the coordinator sends to the worker in all.
MaxMessages == 3
\* Threads of the job dispatcher that can run the worker's job at a time.
MaxThreads == 2

States == {"init", "step", "begin_step", "solve", "broadphase", "broadphase_async",
           "narrowphase", "narrowphase_async", "finish_step"}
\* The part of maybe_reschedule, reschedule_later and reschedule an
\* invocation has still to run.
Tails == {"maybe_reschedule", "exchange", "reschedule_later", "reschedule", "reschedule_add"}
Messages ==
    [type : {"island_delta"}, arg : {"none", "sleep", "wake", "destroy_edge"}]
    \cup [type : {"set_paused"}, arg : {"pause", "resume"}]
    \cup [type : {"step_simulation", "set_fixed_dt", "wake_up_island", "set_settings"},
          arg : {"none"}]
Inputs == [due : BOOLEAN, broadphase_parallelizable : BOOLEAN,
           narrowphase_parallelizable : BOOLEAN, sleepy : BOOLEAN, elapsed : BOOLEAN,
           single : BOOLEAN]

\* island_worker::island_worker.
new_worker ==
    [m_state |-> "init", m_splitting |-> FALSE, m_terminating |-> FALSE,
     m_terminated |-> FALSE, m_reschedule_counter |-> 0,
     m_topology_changed |-> FALSE, m_pending_split_calculation |-> FALSE,
     sleeping |-> FALSE, paused |-> FALSE, deleted |-> FALSE, fault |-> FALSE]
\* island_worker_context::island_worker_context and the island's entry in
\* m_island_ctx_map and m_islands_to_split.
new_context ==
    [pc |-> "sync", ctx |-> TRUE, m_pending_flush |-> FALSE, m_islands_to_split |-> FALSE,
     sent |-> 0]
no_history ==
    [last_handled |-> 0, out_of_order |-> FALSE, in_step |-> FALSE, mid_step |-> FALSE,
     missed |-> {}, parked |-> FALSE, requeued_by |-> "none", removed |-> FALSE,
     phase |-> "none", disorder |-> FALSE, asserted |-> FALSE,
     components |-> 0, created |-> FALSE]
no_jobs == [jobs |-> 0, async |-> 0, running |-> [t \in Tails |-> 0]]

ids(q) == {q[k].id : k \in DOMAIN q}
threads(d) == d.running["maybe_reschedule"] + d.running["exchange"]
              + d.running["reschedule_later"] + d.running["reschedule"]
              + d.running["reschedule_add"]

\* The sinks init() connects; on_set_settings is connected to none.
sinks == {"island_delta", "set_paused", "step_simulation", "set_fixed_dt", "wake_up_island"}

island_worker_on_destroy_graph_edge(w) == [w EXCEPT !.m_topology_changed = TRUE]
on_island_delta(w, msg) ==
    CASE msg.arg = "sleep" -> [w EXCEPT !.sleeping = TRUE]
      [] msg.arg = "wake" -> [w EXCEPT !.sleeping = FALSE]
      [] msg.arg = "destroy_edge" -> island_worker_on_destroy_graph_edge(w)
      [] OTHER -> w
on_wake_up_island(w, msg) == [w EXCEPT !.sleeping = FALSE]
on_set_paused(w, msg) == [w EXCEPT !.paused = (msg.arg = "pause")]
on_step_simulation(w, msg) ==
    IF ~w.sleeping THEN [w EXCEPT !.m_state = "begin_step"] ELSE w
on_set_fixed_dt(w, msg) == w

\* The signal of a sink: the handler connected to the message's type.
publish(w, msg) ==
    CASE msg.type = "island_delta" -> on_island_delta(w, msg)
      [] msg.type = "set_paused" -> on_set_paused(w, msg)
      [] msg.type = "step_simulation" -> on_step_simulation(w, msg)
      [] msg.type = "set_fixed_dt" -> on_set_fixed_dt(w, msg)
      [] msg.type = "wake_up_island" -> on_wake_up_island(w, msg)
      [] OTHER -> w

\* message_queue::send and message_queue::update: first in, first out; a
\* message whose type has no sink connected is consumed without a handler.
message_queue_send(q, msg) == Append(q, msg)
RECURSIVE message_queue_update(_)
message_queue_update(S) ==
    IF S.q = <<>> THEN S
    ELSE LET msg == Head(S.q)
             rest == [S EXCEPT !.q = Tail(@)]
         IN message_queue_update(
                IF msg.type \in sinks
                THEN [rest EXCEPT !.w = publish(@, msg),
                                  !.handled = @ \cup {msg.id},
                                  !.h.last_handled = msg.id,
                                  !.h.out_of_order = @ \/ msg.id < S.h.last_handled,
                                  !.h.mid_step = @ \/ S.h.in_step]
                ELSE rest)
process_messages(S) == message_queue_update(S)

reschedule_now(S) == [S EXCEPT !.jobs = @ + 1]
maybe_reschedule(S) == [S EXCEPT !.tail = "maybe_reschedule"]

init(S) == [process_messages(S) EXCEPT !.w.m_state = "step"]

should_step(S, in) ==
    IF S.w.m_state = "begin_step" THEN [S EXCEPT !.ret = TRUE]
    ELSE IF S.w.paused \/ S.w.sleeping THEN [S EXCEPT !.ret = FALSE]
    ELSE IF ~in.due THEN [S EXCEPT !.ret = FALSE]
    ELSE [S EXCEPT !.w.m_state = "begin_step", !.ret = TRUE]

\* EDYN_ASSERT(m_state == state::...) at the top of a phase.  history.phase
\* is the phase the step has reached, history.asserted that an assertion has
\* failed, history.disorder that a phase has run out of its turn or that a
\* parallel phase was finished while its jobs were still to complete.
assert_state(S, state, before, phase) ==
    [S EXCEPT !.h.asserted = @ \/ S.w.m_state # state,
              !.h.disorder = @ \/ S.h.phase # before,
              !.h.phase = phase]
begin_step(S) ==
    [assert_state(S, "begin_step", "none", "begin_step") EXCEPT
        !.w.m_state = "solve", !.h.in_step = TRUE,
        !.h.missed = @ \cup (S.top \ S.handled)]
run_solver(S) ==
    [assert_state(S, "solve", "begin_step", "solver") EXCEPT !.w.m_state = "broadphase"]
run_broadphase(S, in) ==
    LET a == assert_state(S, "broadphase", "solver", "broadphase")
    IN IF in.broadphase_parallelizable
       THEN [a EXCEPT !.w.m_state = "broadphase_async", !.async = @ + 1, !.ret = FALSE]
       ELSE [a EXCEPT !.w.m_state = "narrowphase", !.ret = TRUE]
finish_broadphase(S) ==
    [assert_state(S, "broadphase_async", "broadphase", "broadphase") EXCEPT
        !.w.m_state = "narrowphase", !.h.disorder = @ \/ S.async > 0]
run_narrowphase(S, in) ==
    LET a == assert_state(S, "narrowphase", "broadphase", "narrowphase")
    IN IF in.narrowphase_parallelizable
       THEN [a EXCEPT !.w.m_state = "narrowphase_async", !.async = @ + 1, !.ret = FALSE]
       ELSE [a EXCEPT !.w.m_state = "finish_step", !.ret = TRUE]
finish_narrowphase(S) ==
    [assert_state(S, "narrowphase_async", "narrowphase", "narrowphase") EXCEPT
        !.w.m_state = "finish_step", !.h.disorder = @ \/ S.async > 0]

maybe_go_to_sleep(S, in) == IF in.sleepy THEN [S EXCEPT !.w.sleeping = TRUE] ELSE S
should_split(S, in) ==
    IF ~S.w.m_topology_changed THEN [S EXCEPT !.ret = FALSE]
    ELSE IF S.w.m_pending_split_calculation
    THEN IF in.elapsed
         THEN [S EXCEPT !.w.m_pending_split_calculation = FALSE,
                        !.w.m_topology_changed = FALSE, !.ret = ~in.single]
         ELSE [S EXCEPT !.ret = FALSE]
    ELSE [S EXCEPT !.w.m_pending_split_calculation = TRUE, !.ret = FALSE]
\* finish_step that carries the split out itself instead of asking for it.
finish_step_splits_now(S, in) ==
    LET a == [maybe_go_to_sleep(assert_state(S, "finish_step", "narrowphase", "none"), in)
                 EXCEPT !.w.m_state = "step", !.h.in_step = FALSE]
        b == should_split(a, in)
    IN IF b.ret THEN [b EXCEPT !.w.m_splitting = TRUE, !.out = @ + 1, !.h.removed = TRUE,
                               !.h.components = 0, !.h.created = FALSE]
       ELSE b
\* history.removed: the worker has destroyed the entities of the smaller
\* connected components since it last asked for a split; history.components:
\* the connected components the split found, 0 before it; history.created:
\* the coordinator has created an island for a component since.
finish_step(S, in) ==
    LET a == [maybe_go_to_sleep(assert_state(S, "finish_step", "narrowphase", "none"), in)
                 EXCEPT !.w.m_state = "step", !.h.in_step = FALSE]
        b == should_split(a, in)
    IN IF b.ret THEN [b EXCEPT !.w.m_splitting = TRUE, !.out = @ + 1, !.h.removed = FALSE,
                               !.h.components = 0, !.h.created = FALSE]
       ELSE b

narrowphase_and_finish(S, in) ==
    LET a == run_narrowphase(S, in)
    IN IF a.ret THEN maybe_reschedule(finish_step(a, in)) ELSE a
worker_update(S, in) ==
    CASE S.w.m_state = "init" -> maybe_reschedule(init(S))
      [] S.w.m_state = "step" ->
            LET a == should_step(process_messages(S), in)
            IN IF a.ret
               THEN LET b == run_broadphase(run_solver(begin_step(a)), in)
                    IN IF b.ret THEN narrowphase_and_finish(b, in) ELSE b
               ELSE maybe_reschedule(a)
      [] S.w.m_state = "begin_step" -> reschedule_now(begin_step(S))
      [] S.w.m_state = "solve" -> reschedule_now(run_solver(S))
      [] S.w.m_state = "broadphase" ->
            LET a == run_broadphase(S, in) IN IF a.ret THEN reschedule_now(a) ELSE a
      [] S.w.m_state = "broadphase_async" -> narrowphase_and_finish(finish_broadphase(S), in)
      [] S.w.m_state = "narrowphase" -> narrowphase_and_finish(S, in)
      [] S.w.m_state = "narrowphase_async" ->
            maybe_reschedule(finish_step(finish_narrowphase(S), in))
      [] S.w.m_state = "finish_step" -> maybe_reschedule(finish_step(S, in))

\* The inputs an invocation of update can read in the worker's state: an
\* input it does not get to read is left FALSE.
reads(w, in) ==
    LET finishes == w.m_state \notin {"init", "begin_step", "solve", "broadphase"}
    IN /\ in.due => w.m_state = "step"
       /\ in.broadphase_parallelizable =>
              w.m_state = "broadphase" \/ (w.m_state = "step" /\ in.due)
       /\ in.narrowphase_parallelizable =>
              /\ w.m_state \in {"step", "broadphase_async", "narrowphase"}
              /\ ~in.broadphase_parallelizable
       /\ (in.sleepy \/ in.elapsed) =>
              /\ finishes
              /\ ~in.broadphase_parallelizable /\ ~in.narrowphase_parallelizable
       /\ (w.m_state = "step" /\ ~in.due) =>
              ~in.narrowphase_parallelizable /\ ~in.sleepy /\ ~in.elapsed
       /\ in.single => in.elapsed
update_inputs(w) == {in \in Inputs : reads(w, in)}

is_terminating(w) == w.m_terminating
do_terminate(w) == [w EXCEPT !.m_terminated = TRUE]

\* maybe_reschedule without its test of the sleeping_tag.
maybe_reschedule_count_unless_paused(w, reschedule_count) ==
    IF reschedule_count = 1
    THEN IF ~w.paused THEN "reschedule_later" ELSE "none"
    ELSE "reschedule"
\* What maybe_reschedule does with the count it exchanged for zero.
maybe_reschedule_count(w, reschedule_count) ==
    IF reschedule_count = 1
    THEN IF ~w.paused /\ ~w.sleeping THEN "reschedule_later" ELSE "none"
    ELSE "reschedule"
\* m_reschedule_counter.fetch_add(1) of reschedule_later and reschedule: the
\* job is handed to the dispatcher when the count was zero.
fetch_add(w) == [w EXCEPT !.m_reschedule_counter = @ + 1]
scheduled(w) == w.m_reschedule_counter = 0

\* A job entered the dispatcher: the worker is parked no longer.
enqueued(h, by) ==
    IF h.parked THEN [h EXCEPT !.parked = FALSE, !.requeued_by = by] ELSE h
\* An invocation moves on in maybe_reschedule, reschedule_later or reschedule.
moved(d, from, to) ==
    [d EXCEPT !.running = [t \in Tails |->
        IF t = from THEN @[t] - 1 ELSE IF t = to THEN @[t] + 1 ELSE @[t]]]

\* island_coordinator::create_island: the worker, its context and the first
\* island_delta, which carries a sleeping_tag when the island starts asleep.
island_coordinator_create_island(sleeping) ==
    [worker |-> new_worker,
     queue |-> message_queue_send(<<>>, [id |-> 1, type |-> "island_delta",
                   arg |-> IF sleeping THEN "sleep" ELSE "none"]),
     coordinator |-> [new_context EXCEPT !.m_pending_flush = TRUE, !.sent = 1]]

(***************************************************************************)
(***************************************************************************)
(* on_island_delta, of island_worker and of island_coordinator: a delta    *)
(* is imported into the receiving registry, then graph nodes are inserted  *)
(* for the bodies it created and graph edges for its manifolds and         *)
(* constraints.                                                            *)
(***************************************************************************)
\* Bodies one delta creates at most.
MaxCreated == 1

EdgeTypes == {"contact_manifold", "constraint"}

empty_graph == [nodes |-> {}, non_connecting |-> {},
                edges |-> [e \in EdgeIds |-> NoEdge]]

no_delta == [created |-> [n \in NodeIds |-> "none"],
             edges |-> [e \in EdgeIds |-> NoEdge],
             type |-> [e \in EdgeIds |-> "none"],
             destroyed |-> {}]

not_importing == [side |-> "none", pc |-> 0, delta |-> no_delta,
                  graph |-> empty_graph, orphan |-> FALSE, early |-> FALSE]

\* What a delta builder finishes for a registry whose graph is G: the bodies
\* the delta creates are new to G, and the bodies of a manifold or constraint
\* it creates are bodies it creates too or bodies G keeps.
finish(G, d) ==
    /\ Cardinality(d.destroyed) <= 1
    /\ d.destroyed \subseteq G.nodes
    /\ Cardinality({n \in NodeIds : d.created[n] # "none"}) <= MaxCreated
    /\ \A n \in NodeIds : d.created[n] # "none" => n \notin G.nodes
    /\ \A e \in EdgeIds :
        /\ d.edges[e] = NoEdge <=> d.type[e] = "none"
        /\ d.edges[e] # NoEdge =>
            /\ ~has_edge(G, e)
            /\ \A n \in {d.edges[e][1], d.edges[e][2]} :
                \/ d.created[n] # "none"
                \/ n \in G.nodes \ d.destroyed
    /\ \/ \E n \in NodeIds : d.created[n] # "none"
       \/ \E e \in EdgeIds : d.edges[e] # NoEdge

EdgeChoices ==
    {[bodies |-> NoEdge, type |-> "none"]}
        \cup {[bodies |-> p, type |-> t] :
                p \in {q \in NodeIds \X NodeIds : q[1] < q[2]}, t \in EdgeTypes}

CreatedChoices ==
    {f \in [NodeIds -> Kinds \cup {"none"}] :
        Cardinality({n \in NodeIds : f[n] # "none"}) <= MaxCreated}

DeltaChoices ==
    {[created |-> c,
      edges |-> [e \in EdgeIds |-> x[e].bodies],
      type |-> [e \in EdgeIds |-> x[e].type],
      destroyed |-> D] :
        c \in CreatedChoices, x \in [EdgeIds -> EdgeChoices],
        D \in {S \in SUBSET NodeIds : Cardinality(S) <= 1}}

Deltas(G) == {d \in DeltaChoices : finish(G, d)}

\* delta.import: the entities the delta destroyed are destroyed here, and
\* on_destroy_graph_node takes each node out of the graph with its edges.
import(G, d) ==
    IF d.destroyed = {} THEN G
    ELSE LET n == CHOOSE x \in d.destroyed : TRUE
         IN remove_node(remove_all_edges(G, n), n)

\* created_for_each<Tag>(index_source, insert_node).
insert_remote_node(G, d, tag) ==
    LET S == {n \in NodeIds : d.created[n] = tag}
    IN [G EXCEPT !.nodes = @ \cup S,
                 !.non_connecting = IF tag = "dynamic" THEN @ \ S ELSE @ \cup S]

\* created_for_each<contact_manifold> and created_for_each(constraints_tuple):
\* graph.insert_edge for every edge of the type.
insert_remote_edges(G, d, type) ==
    [G EXCEPT !.edges = [e \in EdgeIds |-> IF d.type[e] = type THEN d.edges[e] ELSE @[e]]]

\* node_view.get(body) of a body that has no graph_node.
missing_bodies(G, d, type) ==
    {n \in NodeIds : n \notin G.nodes /\ \E e \in EdgeIds :
        d.type[e] = type /\ n \in {d.edges[e][1], d.edges[e][2]}}

\* The loops of on_island_delta in the order of the source, reversed.
created_for_each_edges_first(side) ==
    <<"constraint", "contact_manifold", "dynamic", "static", "kinematic">>
\* The loops of on_island_delta in the order of the source; island_worker
\* and island_coordinator run them in the same order.
created_for_each_order(side) ==
    <<"dynamic", "static", "kinematic", "contact_manifold", "constraint">>

\* One loop of on_island_delta.
created_for_each(I) ==
    LET type == created_for_each_order(I.side)[I.pc]
        last == I.pc = Len(created_for_each_order(I.side))
        missing == missing_bodies(I.graph, I.delta, type)
        G == IF type \in Kinds THEN insert_remote_node(I.graph, I.delta, type)
             ELSE insert_remote_edges(I.graph, I.delta, type)
    IN [I EXCEPT !.graph = G,
                 !.orphan = @ \/ (type \in EdgeTypes /\ missing # {}),
                 !.early = @ \/ (type \in EdgeTypes /\
                                    \E n \in missing : I.delta.created[n] # "none"),
                 !.pc = IF last THEN 0 ELSE @ + 1,
                 !.delta = IF last THEN no_delta ELSE @]

(***************************************************************************)
(* The coordinator's registry and the private registry of a worker, which  *)
(* hold a copy of the same entities and exchange island_deltas through     *)
(* the two ends of a message queue.  A component is one value per entity.  *)
(***************************************************************************)
\* Deltas in flight in one direction.
MaxInFlight == 1
Shared == {1, 2}
Values == {"x0", "x1"}
new_stores ==
    [registry |-> [n \in Shared |-> "x0"], m_registry |-> [n \in Shared |-> "x0"],
     to_worker |-> <<>>, to_coordinator |-> <<>>, thread |-> "none", handler |-> "none"]

\* island_delta::import: the components the delta carries replace the
\* receiver's.
import_components(reg, delta) ==
    [n \in Shared |-> IF delta[n] = "unchanged" THEN reg[n] ELSE delta[n]]
\* builder->updated(entity, ...) for one dirty entity, then finish().
updated_delta(n, v) == [m \in Shared |-> IF m = n THEN v ELSE "unchanged"]

\* A sync that writes the worker's components into the coordinator's store.
worker_sync_writes_store(st) == [st EXCEPT !.registry = st.m_registry]
\* island_worker::sync: the components of every entity of m_registry go into
\* the delta, the delta into the outgoing queue.
worker_sync(st) == [st EXCEPT !.to_coordinator = Append(@, st.m_registry)]
\* island_worker::on_island_delta.
worker_on_island_delta(st) ==
    [st EXCEPT !.m_registry = import_components(@, Head(st.to_worker)),
               !.to_worker = Tail(@)]
\* island_coordinator::on_island_delta.
coordinator_on_island_delta(st) ==
    [st EXCEPT !.registry = import_components(@, Head(st.to_coordinator)),
               !.to_coordinator = Tail(@)]
\* refresh_dirty_entities and sync of the coordinator for a component the
\* user assigned and marked dirty.
refresh_dirty_entities(st, n, v) ==
    [st EXCEPT !.registry[n] = v, !.to_worker = Append(@, updated_delta(n, v))]

(***************************************************************************)
(* parallel_for.  The caller runs the first for_loop_range; a child job    *)
(* steals the upper half of the range with the most work left, dispatches  *)
(* the next child job and runs what it stole.  The loads, stores and       *)
(* fetch_adds of the atomics m_current and m_last are steps of their own.  *)
(***************************************************************************)
\* The largest value of last.
MaxLast == 4
\* The largest value of step.
MaxStep == 2
Indexes == 0..MaxLast
no_job == [pc |-> "none", candidate |-> 0, current |-> 0, last |-> 0]
no_loops ==
    [phase |-> "idle", m_first |-> 0, m_last |-> 0, m_step |-> 1, m_loops |-> <<>>,
     m_counter |-> 0, job |-> no_job, calls |-> [i \in Indexes |-> 0],
     late |-> FALSE, fault |-> FALSE]

\* for_loop_range::for_loop_range; pc is where run() stands and i is its
\* local index.
for_loop_range(first, last) ==
    [m_first |-> first, m_last |-> last, m_current |-> first, i |-> first, pc |-> "load"]

\* mutex_counter: wait() returns when the count is zero.
mutex_counter_wait(L) == L.m_counter = 0

\* steal(), lines 87-103: the loop with the most work left; of loops with
\* as much left, the one the list holds last, which is the oldest.
remaining(r) == r.m_last - r.m_current
candidate_loop(L) ==
    LET some == {k \in DOMAIN L.m_loops : ~(L.m_loops[k].m_current > L.m_loops[k].m_last)}
    IN IF some = {} THEN 0
       ELSE CHOOSE k \in some : \A j \in some :
                \/ remaining(L.m_loops[k]) > remaining(L.m_loops[j])
                \/ remaining(L.m_loops[k]) = remaining(L.m_loops[j]) /\ k <= j
\* steal(), lines 105-120: the loads of the candidate's m_last and m_current
\* and the two early returns; a null candidate is dereferenced.
steal_load(L) ==
    LET c == candidate_loop(L)
        last == L.m_loops[c].m_last
        current == L.m_loops[c].m_current
        total == last - L.m_loops[c].m_first
    IN IF c = 0 THEN [L EXCEPT !.fault = TRUE]
       ELSE IF ~(current + 1 < last) THEN [L EXCEPT !.job = no_job]
       ELSE IF (last - current) * 100 < total * 10 THEN [L EXCEPT !.job = no_job]
       ELSE [L EXCEPT !.job = [pc |-> "increment", candidate |-> c,
                               current |-> current, last |-> last]]
\* A steal that leaves the counter as it is.
steal_without_increment(L) == [L EXCEPT !.job.pc = "store"]
\* steal(), line 128: m_counter.increment().
steal_increment(L) == [L EXCEPT !.m_counter = @ + 1, !.job.pc = "store"]
middle(job) == job.current + (job.last - job.current) \div 2
\* steal(), lines 132-133: the candidate's m_last becomes the halfway point.
steal_store(L) ==
    [L EXCEPT !.m_loops[L.job.candidate].m_last = middle(L.job), !.job.pc = "reload"]
\* steal(), lines 141-145, and the dispatch of the next child job.
steal_emplace(L) ==
    LET current == L.m_loops[L.job.candidate].m_current
        new_first == IF current >= middle(L.job) THEN current ELSE middle(L.job)
    IN [L EXCEPT !.m_loops = Append(@, for_loop_range(new_first, L.job.last)),
                 !.job = [no_job EXCEPT !.pc = "queued"]]

\* for_loop_range::run, one atomic operation at a time.
run_load(L, k) ==
    [L EXCEPT !.m_loops[k].i = L.m_loops[k].m_current, !.m_loops[k].pc = "check"]
run_check(L, k) ==
    IF L.m_loops[k].i < L.m_loops[k].m_last
    THEN [L EXCEPT !.m_loops[k].pc = "call"]
    ELSE [L EXCEPT !.m_loops[k].pc = "done", !.m_counter = @ - 1]
\* (*m_func)(i) and the fetch_add; calls counts the invocations of an index
\* up to two, late records an invocation after parallel_for returned.
run_call(L, k) ==
    LET i == L.m_loops[k].i
    IN [L EXCEPT !.calls = IF i \in Indexes
                           THEN [@ EXCEPT ![i] = IF @ < 2 THEN @ + 1 ELSE @]
                           ELSE @,
                 !.late = @ \/ L.phase = "returned",
                 !.m_loops[k].m_current = @ + L.m_step,
                 !.m_loops[k].i = L.m_loops[k].m_current + L.m_step,
                 !.m_loops[k].pc = "check"]

(***************************************************************************)
(* Falling asleep.  One island of two dynamic bodies joined by a           *)
(* constraint, under one of the three routines that put islands to sleep   *)
(* (island_manager, island_worker, island_util) and under the solver.      *)
(* A speed is zero, slow (not above the sleep thresholds) or fast; an      *)
(* update follows the one before after fixed_dt, which is one unit of      *)
(* time.                                                                   *)
(***************************************************************************)
\* Updates of a run.
MaxSteps == 5
Sleepers == {"island_manager", "island_worker", "island_util"}
Speeds == {"zero", "slow", "fast"}
Bodies == {n \in NodeIds : n <= 2}
scene_registry ==
    [kind |-> [n \in NodeIds |-> IF n \in Bodies THEN "dynamic" ELSE "none"],
     edge_valid |-> {1},
     node_island |-> [n \in NodeIds |-> IF n \in Bodies THEN 1 ELSE Null],
     edge_island |-> [e \in EdgeIds |-> IF e = 1 THEN 1 ELSE Null],
     multi |-> [n \in NodeIds |-> {}],
     islands |-> <<[nodes |-> Bodies, edges |-> {1}, sleep_timestamp |-> NoTime]>>,
     sleeping_islands |-> {}, sleeping_nodes |-> {}, sleeping_edges |-> {},
     moving |-> {}, sleeping_disabled |-> {}, fault |-> FALSE]
scene_graph ==
    [nodes |-> Bodies, non_connecting |-> {},
     edges |-> [e \in EdgeIds |-> IF e = 1 THEN <<1, 2>> ELSE NoEdge]]
scene_manager ==
    [new_graph_nodes |-> {}, new_graph_edges |-> {}, islands_to_split |-> {},
     islands_to_wake_up |-> {}, last_time |-> 0]
\* stamp is m_sleep_timestamp of the worker or sleep_step of island_util;
\* since, marked_after and marked_disabled are history.
not_simulating ==
    [impl |-> "none", R |-> scene_registry, M |-> scene_manager,
     linvel |-> [n \in Bodies |-> "zero"], now |-> 0, stamp |-> NoTime,
     since |-> 0, marked_after |-> NoTime, marked_disabled |-> FALSE]

is_sleeping(S) == 1 \in S.R.sleeping_islands
fast(S) == {n \in Bodies : S.linvel[n] = "fast"}

\* could_go_to_sleep that looks at the speeds only.
island_worker_could_go_to_sleep_by_speed(S) ==
    {n \in fast(S) : procedural(S.R, n)} = {}
\* island_worker::could_go_to_sleep.
island_worker_could_go_to_sleep(S) ==
    /\ S.R.sleeping_disabled = {}
    /\ {n \in fast(S) : procedural(S.R, n)} = {}
\* island_worker::go_to_sleep and the put to sleep of island_util.
go_to_sleep(S) ==
    [S EXCEPT !.R = put_to_sleep(@, {1}),
              !.linvel = [n \in Bodies |-> IF procedural(S.R, n) THEN "zero" ELSE @[n]]]
\* island_worker::maybe_go_to_sleep; isle_time.value is the time of the step.
island_worker_maybe_go_to_sleep(S) ==
    IF island_worker_could_go_to_sleep(S)
    THEN IF S.stamp = NoTime THEN [S EXCEPT !.stamp = S.now]
         ELSE IF S.now - S.stamp > island_time_to_sleep
              THEN [go_to_sleep(S) EXCEPT !.stamp = NoTime]
              ELSE S
    ELSE [S EXCEPT !.stamp = NoTime]
\* put_islands_to_sleep of island_util: an island with a fast body is left
\* as it is, sleep_step included.
island_util_put_islands_to_sleep(S) ==
    IF is_sleeping(S) \/ fast(S) # {} THEN S
    ELSE IF S.stamp = NoTime THEN [S EXCEPT !.stamp = S.now]
    ELSE IF (S.now - S.stamp) > island_time_to_sleep THEN go_to_sleep(S)
    ELSE S
\* put_to_sleep of island_manager zeroes the velocities of the nodes it tags.
asleep_at_rest(S, a) ==
    [S EXCEPT !.R = a.R, !.M = a.M,
              !.linvel = [n \in Bodies |->
                  IF n \in a.R.sleeping_nodes \ S.R.sleeping_nodes THEN "zero"
                  ELSE @[n]]]
\* island_manager::update on the island, with the speeds of this update.
island_manager_put_islands_to_sleep(S) ==
    asleep_at_rest(S, update(scene_graph, [S.R EXCEPT !.moving = fast(S)], S.M, S.now,
                             "lo", "lo", TRUE))
\* The routine of the implementation at the time S.now.
put_island_to_sleep(S) ==
    CASE S.impl = "island_manager" -> island_manager_put_islands_to_sleep(S)
      [] S.impl = "island_worker" ->
            IF is_sleeping(S) THEN S ELSE island_worker_maybe_go_to_sleep(S)
      [] S.impl = "island_util" -> island_util_put_islands_to_sleep(S)

\* wake_up_island of island_manager, on_wake_up_island of the worker,
\* wakeup_island of island_util.
wake_up(S) ==
    [S EXCEPT !.R = wake_up_island(@, 1),
              !.stamp = IF S.impl = "island_util" THEN NoTime ELSE @]

\* apply_gravity that leaves out the bodies with a sleeping_tag.
apply_gravity_awake(S, n) ==
    IF n \in S.R.sleeping_nodes \/ S.linvel[n] = "fast" THEN S.linvel[n]
    ELSE IF S.linvel[n] = "zero" THEN "slow" ELSE "fast"
\* apply_gravity: vel += g * dt for every body with linvel, gravity and
\* dynamic_tag.
apply_gravity(S, n) ==
    IF S.linvel[n] = "zero" THEN "slow" ELSE "fast"
\* solver::update: gravity, then the constraint solver and apply_solution,
\* which leave out the entities with a sleeping_tag and give the others the
\* speeds solved.
solver_update(S, solved) ==
    [S EXCEPT !.linvel = [n \in Bodies |->
        IF n \in S.R.sleeping_nodes THEN apply_gravity(S, n) ELSE solved[n]]]

(***************************************************************************)
(* The broadphase of the main registry.  Two bodies, each with a           *)
(* collision_filter given at construction, and the contact manifolds that  *)
(* broadphase_main::update makes between bodies of different islands.      *)
(***************************************************************************)
\* Bits of a collision group and of a collision mask.
FilterBits == 2
Masks == 0 .. (2 ^ FilterBits - 1)
RECURSIVE bit_and(_, _, _)
\* a & b on unsigned integers of k bits.
bit_and(a, b, k) ==
    IF k = 0 THEN 0
    ELSE (a % 2) * (b % 2) + 2 * bit_and(a \div 2, b \div 2, k - 1)
Pairs == {p \in SUBSET Bodies : Cardinality(p) = 2}
\* Manifolds a run makes.
MaxManifolds == 3
\* The key of contact_manifold_map: the unordered pair, smaller handle first.
unordered(e0, e1) == IF e0 < e1 THEN <<e0, e1>> ELSE <<e1, e0>>
\* contact_manifold_map::contains.
manifold_map_contains(B, e0, e1) == unordered(e0, e1) \in B.m_manifold_map
\* island_container of a body: entities holds the islands it is in.
no_bodies ==
    [kind |-> [n \in Bodies |-> "none"],
     filter |-> [n \in Bodies |-> [group |-> 0, mask |-> 0]],
     container |-> [n \in Bodies |-> {}],
     manifolds |-> <<>>, m_manifold_map |-> {}, merged |-> {}, skipped |-> {}]
\* manifolds holds the bodies <<body0, body1>> of each contact_manifold in
\* the order of creation; m_manifold_map the pairs with a manifold; merged
\* the pairs whose manifold the coordinator put into an island; skipped
\* (history) the pairs an update passed over because of the map.

\* should_collide that does not look at the collision filters.
should_collide_unfiltered(B, e0, e1) ==
    /\ e0 # e1
    /\ IF B.kind[e0] = "dynamic" THEN B.container[e0] \cap B.container[e1] = {}
       ELSE IF B.kind[e1] = "dynamic" THEN B.container[e1] \cap B.container[e0] = {}
       ELSE FALSE
\* broadphase_main::should_collide.
should_collide(B, e0, e1) ==
    /\ e0 # e1
    /\ IF B.kind[e0] = "dynamic" THEN B.container[e0] \cap B.container[e1] = {}
       ELSE IF B.kind[e1] = "dynamic" THEN B.container[e1] \cap B.container[e0] = {}
       ELSE FALSE
    /\ bit_and(B.filter[e0].group, B.filter[e1].mask, FilterBits) > 0
    /\ bit_and(B.filter[e1].group, B.filter[e0].mask, FilterBits) > 0
\* make_contact_manifold; the map learns of the manifold when its
\* contact_manifold component is constructed.
make_contact_manifold(B, body0, body1) ==
    [B EXCEPT !.manifolds = Append(@, <<body0, body1>>),
              !.m_manifold_map = @ \cup {unordered(body0, body1)}]
\* The body of the query of intersect_islands without the look at the map.
intersect_unmapped(B, entityA, entityB) ==
    IF should_collide(B, entityA, entityB)
    THEN make_contact_manifold(B, entityA, entityB)
    ELSE B
\* The body of the query of intersect_islands and of intersect_island_np,
\* for two entities whose AABBs intersect.
intersect(B, entityA, entityB) ==
    IF should_collide(B, entityA, entityB)
    THEN IF ~manifold_map_contains(B, entityA, entityB)
         THEN make_contact_manifold(B, entityA, entityB)
         ELSE [B EXCEPT !.skipped = @ \cup {<<entityA, entityB>>}]
    ELSE B
\* The loop of broadphase_main::update over the islands: a pair of two
\* dynamic bodies is met twice, from the island of each (intersect_islands);
\* a dynamic and a non-procedural body once (intersect_island_np).  first is
\* the body whose island the view yields first.
RECURSIVE intersect_islands(_, _, _)
intersect_islands(B, intersecting, first) ==
    IF intersecting = {} THEN B
    ELSE LET p == CHOOSE q \in intersecting : TRUE
             a == IF first \in p THEN first ELSE CHOOSE n \in p : \A m \in p : n <= m
             b == CHOOSE n \in p : n # a
             after == IF B.kind[a] = "dynamic" /\ B.kind[b] = "dynamic"
                      THEN intersect(intersect(B, a, b), b, a)
                      ELSE IF B.kind[a] = "dynamic" THEN intersect(B, a, b)
                      ELSE IF B.kind[b] = "dynamic" THEN intersect(B, b, a)
                      ELSE B
         IN intersect_islands(after, intersecting \ {p}, first)

(***************************************************************************)
(* The contact points of one manifold.  point holds the lifetime of each   *)
(* contact point, in the order of contact_manifold::point; the narrowphase *)
(* is process_collision and prune of narrowphase.cpp or process_collision  *)
(* of collision_util.hpp.  Where a result point is near an existing point  *)
(* and which points separate is geometry: an input.                        *)
(***************************************************************************)
\* Size of contact_manifold::point.
max_contacts == 4
\* Points of a collision_result.
MaxResult == 2
\* Lifetime of a contact point.
MaxLifetime == 2
Narrowphases == {"narrowphase", "collision_util"}
no_contacts == [impl |-> "none", point |-> <<>>, full_insert |-> FALSE]
\* full_insert (history): a result point that merged with no point met a
\* full manifold.

\* Removal of the point at k: the last point takes its place.
swap_with_last(point, k) ==
    [i \in 1 .. (Len(point) - 1) |-> IF i = k THEN point[Len(point)] ELSE point[i]]

\* insert_index: the index of a similar point or of the point to replace,
\* the index after the last when there is room, max_contacts for none.
\* Indexes start at 1 here; c is the point the geometry picks.
insert_index(num_points, c) ==
    IF c \in 1 .. num_points THEN c
    ELSE IF num_points < max_contacts THEN num_points + 1
    ELSE max_contacts + 1

\* The body of the loop of process_collision without `idx < max_contacts`.
process_point_unguarded(point, rp) ==
    IF rp.nearest \in 1 .. Len(point)
    THEN [point EXCEPT ![rp.nearest] = @ + 1]
    ELSE LET idx == insert_index(Len(point), rp.insert)
         IN IF idx = Len(point) + 1 THEN Append(point, 0)
            ELSE [point EXCEPT ![idx] = 0]
\* The body of the loop of process_collision of narrowphase.cpp for one
\* point of the result: merge with the nearest point, or insert.
process_point(point, rp) ==
    IF rp.nearest \in 1 .. Len(point)
    THEN [point EXCEPT ![rp.nearest] = @ + 1]
    ELSE LET idx == insert_index(Len(point), rp.insert)
         IN IF idx <= max_contacts
            THEN IF idx = Len(point) + 1 THEN Append(point, 0)
                 ELSE [point EXCEPT ![idx] = 0]
            ELSE point
RECURSIVE narrowphase_process_collision(_, _)
\* process_collision of narrowphase.cpp.
narrowphase_process_collision(point, result) ==
    IF result = <<>> THEN point
    ELSE narrowphase_process_collision(process_point(point, Head(result)), Tail(result))
RECURSIVE prune(_, _, _)
\* prune: from the last point to the first, a separating point goes.
prune(point, i, separating) ==
    IF i = 0 THEN point
    ELSE prune(IF i \in separating THEN swap_with_last(point, i) ELSE point,
               i - 1, separating)
\* narrowphase::update_contact_manifold.
update_contact_manifold(point, intersects, result, separating) ==
    prune(IF intersects THEN narrowphase_process_collision(point, result) ELSE point,
          Len(IF intersects THEN narrowphase_process_collision(point, result) ELSE point),
          separating)

\* insertion_point_index: similar to a point, appended (the caller's
\* num_points grows), replacing a point of a full array, or none.
insertion_point_index(num_points, choice) ==
    IF choice.similar /\ choice.c \in 1 .. num_points
    THEN [type |-> "similar", index |-> choice.c]
    ELSE IF num_points < max_contacts
    THEN [type |-> "append", index |-> num_points + 1]
    ELSE IF choice.c \in 1 .. num_points
    THEN [type |-> "replace", index |-> choice.c]
    ELSE [type |-> "none", index |-> 0]
RECURSIVE merge_existing(_, _, _, _)
\* The first loop of process_collision of collision_util.hpp, from the last
\* point to the first: the point ages, merges with its nearest result point
\* if that is not merged yet, or is removed if it separates.
merge_existing(S, i, num_result, geometry) ==
    IF i = 0 THEN S
    ELSE LET aged == [S EXCEPT !.point[i] = @ + 1]
             nearest_idx == geometry[i].nearest
             next == IF nearest_idx \in 1 .. num_result /\ nearest_idx \notin S.merged
                     THEN [aged EXCEPT !.merged = @ \cup {nearest_idx}]
                     ELSE IF geometry[i].separating
                     THEN [aged EXCEPT !.point = swap_with_last(@, i)]
                     ELSE aged
         IN merge_existing(next, i - 1, num_result, geometry)
RECURSIVE insert_remaining(_, _, _, _)
\* The second loop: each result point not merged goes into local_points.
insert_remaining(local, pt_idx, S, choices) ==
    IF pt_idx > S.num_result THEN local
    ELSE IF pt_idx \in S.merged THEN insert_remaining(local, pt_idx + 1, S, choices)
    ELSE LET res == insertion_point_index(Len(local), choices[pt_idx])
         IN insert_remaining(
                IF res.type = "none" THEN local
                ELSE IF res.index = Len(local) + 1
                THEN Append(local, [entity |-> 0, type |-> res.type])
                ELSE [local EXCEPT ![res.index].type = res.type],
                pt_idx + 1, S, choices)
RECURSIVE assign_points(_, _, _, _)
\* The third loop: new_point_func appends a point to the manifold, a
\* replaced point leaves it first.  at[e] is where the point that was at e
\* when the loop began is now.
assign_points(point, at, local, pt_idx) ==
    IF pt_idx > Len(local) THEN point
    ELSE LET local_pt == local[pt_idx]
         IN IF local_pt.type = "append"
               \/ (local_pt.type \in {"similar", "replace"} /\ local_pt.entity = 0)
            THEN assign_points(Append(point, 0), at, local, pt_idx + 1)
            ELSE IF local_pt.type = "replace"
            THEN LET i == at[local_pt.entity]
                     last_idx == Len(point)
                 IN assign_points(
                        Append(swap_with_last(point, i), 0),
                        [e \in DOMAIN at |-> IF at[e] = last_idx THEN i ELSE at[e]],
                        local, pt_idx + 1)
            ELSE assign_points(point, at, local, pt_idx + 1)
\* process_collision of collision_util.hpp.
collision_util_process_collision(point, num_result, geometry, choices) ==
    LET S == merge_existing([point |-> point, merged |-> {}, num_result |-> num_result],
                            Len(point), num_result, geometry)
        start == IF S.point = <<>>
                 THEN <<[entity |-> 0, type |-> "append"]>>
                 ELSE [i \in 1 .. Len(S.point) |-> [entity |-> i, type |-> "none"]]
        T == IF S.point = <<>> THEN [S EXCEPT !.merged = @ \cup {1}] ELSE S
    IN IF (1 .. num_result) \subseteq S.merged THEN S.point
       ELSE assign_points(S.point, [e \in 1 .. Len(S.point) |-> e],
                          insert_remaining(start, 1, T, choices), 1)

(***************************************************************************)
(* The rows of a solver step.  prepare_constraints makes the rows of the   *)
(* contact constraints (a normal row, two friction rows, two rolling       *)
(* friction rows and a spin friction row for each contact point, the last  *)
(* three as the point asks) and of the spin constraints, and warm starts   *)
(* them; the iterations follow.  An impulse is 0 or 1; delta is the sum    *)
(* of what was applied to the velocity deltas.                             *)
(***************************************************************************)
\* Contact points of the manifold.
MaxPoints == 2
\* num_solver_velocity_iterations.
MaxIterations == 2
ContactPoints == [roll_friction : BOOLEAN, spin_friction : BOOLEAN, impulse : 0 .. 1]
no_rows ==
    [phase |-> "idle", point |-> <<>>, spin_constraint |-> FALSE, rows |-> <<>>,
     iteration |-> 0, delta |-> 0]
\* A row: warmed counts the warm starts of the step and late those made
\* after an iteration (history).
new_row(type, impulse) ==
    [type |-> type, impulse |-> impulse, warmed |-> 0, late |-> FALSE, solved |-> 0]

\* warm_start and warm_start_friction: apply_impulse(row.impulse, row).
warm_start(C, k) ==
    [C EXCEPT !.delta = @ + C.rows[k].impulse,
              !.rows[k].warmed = @ + 1,
              !.rows[k].late = @ \/ C.iteration > 0]
\* emplace_back of a row with the persisted impulse, prepare_row.
emplace_row(C, type, impulse) == [C EXCEPT !.rows = Append(@, new_row(type, impulse))]
emplace_warm(C, type, impulse) ==
    warm_start(emplace_row(C, type, impulse), Len(C.rows) + 1)

\* The rows of a contact point with a spin row that is not warm started.
prepare_point_cold_spin(C, cp) ==
    LET normal == emplace_warm(C, "normal", cp.impulse)
        friction == emplace_warm(emplace_warm(normal, "friction", cp.impulse),
                                 "friction", cp.impulse)
        roll == IF cp.roll_friction
                THEN emplace_warm(emplace_warm(friction, "roll", cp.impulse),
                                  "roll", cp.impulse)
                ELSE friction
    IN IF cp.spin_friction THEN emplace_row(roll, "spin", cp.impulse) ELSE roll
\* The body of the loop over the contact points of
\* prepare_constraints<contact_constraint>.
prepare_point(C, cp) ==
    LET normal == emplace_warm(C, "normal", cp.impulse)
        friction == emplace_warm(emplace_warm(normal, "friction", cp.impulse),
                                 "friction", cp.impulse)
        roll == IF cp.roll_friction
                THEN emplace_warm(emplace_warm(friction, "roll", cp.impulse),
                                  "roll", cp.impulse)
                ELSE friction
    IN IF cp.spin_friction THEN emplace_warm(roll, "spin", cp.impulse) ELSE roll
RECURSIVE prepare_contact_constraint(_, _)
\* prepare_constraints<contact_constraint>.
prepare_contact_constraint(C, pt_idx) ==
    IF pt_idx > Len(C.point) THEN C
    ELSE prepare_contact_constraint(prepare_point(C, C.point[pt_idx]), pt_idx + 1)
\* prepare_constraints<spin_constraint>.
prepare_spin_constraint(C) ==
    IF C.spin_constraint THEN emplace_warm(C, "spin_constraint", 1) ELSE C
\* iterate_constraints and the solve of each row: the impulse of a row moves
\* by the delta impulse, which is applied.
iterate(C, impulses) ==
    [C EXCEPT !.iteration = @ + 1,
              !.rows = [k \in DOMAIN @ |-> [@[k] EXCEPT !.impulse = impulses[k],
                                                        !.solved = @ + 1]]]

(***************************************************************************)
(* The timing of an island worker.  The performance counter is a clock in  *)
(* ticks; the settings of the registry of the coordinator are the paused   *)
(* state and fixed_dt; the worker has its own copy of the settings, the    *)
(* timestamp of its island and the time its step started.  The phases of   *)
(* a step run in one invocation of update.                                 *)
(***************************************************************************)
\* The last tick of the clock.
MaxClock == 23
\* Messages in the queue of the worker at a time.
MaxPending == 2
\* Calls of step_simulation in all.
MaxCalls == 2
\* Values of fixed_dt, in ticks.
MaxFixedDt == 2
max_lagging_steps == 10
Settings == [paused : BOOLEAN, fixed_dt : 1 .. MaxFixedDt]
\* h.calls: the calls of step_simulation that sent a message; h.steps: the
\* steps that on_step_simulation asked for.
no_stepper ==
    [attached |-> FALSE, time |-> 0, settings |-> [paused |-> FALSE, fixed_dt |-> 1],
     q |-> <<>>,
     w |-> [m_state |-> "step", sleeping |-> FALSE,
            settings |-> [paused |-> FALSE, fixed_dt |-> 1],
            isle_time |-> 0, m_step_start_time |-> 0],
     h |-> [stepped |-> FALSE, capped |-> TRUE, at_limit |-> FALSE, calls |-> 0, steps |-> 0]]

\* on_set_paused with the timestamp it writes.
on_set_paused_at(w, msg, time) ==
    [w EXCEPT !.settings.paused = msg.paused, !.isle_time = time]
\* on_wake_up_island with the timestamp it writes.
on_wake_up_island_at(w, time) ==
    IF ~w.sleeping THEN w ELSE [w EXCEPT !.isle_time = time, !.sleeping = FALSE]
on_set_fixed_dt_at(w, msg) == [w EXCEPT !.settings.fixed_dt = msg.dt]
on_set_settings(w, msg) == [w EXCEPT !.settings = msg.settings]
\* The signal of the sink of the type of a message; a type with no sink has
\* no handler to call.
publish_at(w, msg, time) ==
    IF msg.type \notin sinks THEN w
    ELSE CASE msg.type = "set_paused" -> on_set_paused_at(w, msg, time)
           [] msg.type = "step_simulation" -> on_step_simulation(w, msg)
           [] msg.type = "set_fixed_dt" -> on_set_fixed_dt_at(w, msg)
           [] msg.type = "wake_up_island" -> on_wake_up_island_at(w, time)
           [] OTHER -> w
RECURSIVE process_messages_at(_, _, _)
process_messages_at(w, q, time) ==
    IF q = <<>> THEN w ELSE process_messages_at(publish_at(w, Head(q), time), Tail(q), time)

\* should_step: the worker in its state after it and whether it steps.
should_step_at(w, time) ==
    IF w.m_state = "begin_step"
    THEN [w |-> [w EXCEPT !.m_step_start_time = time], ret |-> TRUE]
    ELSE IF w.settings.paused \/ w.sleeping THEN [w |-> w, ret |-> FALSE]
    ELSE IF time - w.isle_time < w.settings.fixed_dt THEN [w |-> w, ret |-> FALSE]
    ELSE [w |-> [w EXCEPT !.m_step_start_time = time, !.m_state = "begin_step"],
          ret |-> TRUE]

\* finish_step that always moves the timestamp by fixed_dt.
finish_step_uncapped(w, sleepy) ==
    [w EXCEPT !.isle_time = @ + w.settings.fixed_dt,
              !.sleeping = sleepy, !.m_state = "step"]
\* finish_step: the timestamp of the island, maybe_go_to_sleep.
finish_step_at(w, sleepy) ==
    LET dt == w.m_step_start_time - w.isle_time
        fixed_dt == w.settings.fixed_dt
        num_steps == dt \div fixed_dt
        remainder == dt - num_steps * fixed_dt
    IN [w EXCEPT !.isle_time =
                     IF num_steps > max_lagging_steps
                     THEN w.m_step_start_time - (remainder + max_lagging_steps * fixed_dt)
                     ELSE @ + fixed_dt,
                 !.sleeping = sleepy, !.m_state = "step"]
\* The lag of the timestamp behind the start of the step that took the
\* worker from w to after, and ten fixed steps plus the remainder.
lag(after) == after.m_step_start_time - after.isle_time
lag_limit(w) ==
    LET dt == w.m_step_start_time - w.isle_time
        fixed_dt == w.settings.fixed_dt
    IN max_lagging_steps * fixed_dt + (dt - (dt \div fixed_dt) * fixed_dt)
\* What the step that finishes leaves in the history; forced: the step was
\* asked for by on_step_simulation.
step_history(h, w, after, forced) ==
    [h EXCEPT !.stepped = TRUE,
              !.capped = lag(after) <= lag_limit(w),
              !.at_limit = /\ lag(after) = lag_limit(w)
                           /\ lag_limit(w) > max_lagging_steps * w.settings.fixed_dt,
              !.steps = IF forced THEN @ + 1 ELSE @]

(***************************************************************************)
(* attach and detach.  The registry is the set of names of the components  *)
(* of each entity; the shapes stand as one component "shape" and the       *)
(* constraints as one component "constraint".  There are entities for two  *)
(* rigid bodies, a constraint, a contact manifold and an island.           *)
(***************************************************************************)
RigidBodies == {"body0", "body1"}
ConstraintEntity == "constraint_entity"
ManifoldEntity == "manifold_entity"
IslandEntity == "island_entity"
Entities == RigidBodies \cup {ConstraintEntity, ManifoldEntity, IslandEntity}
rigidbody_def ==
    [kind : {"rb_dynamic", "rb_kinematic", "rb_static"}, sensor : BOOLEAN,
     is_tire : BOOLEAN, presentation : BOOLEAN, spin_enabled : BOOLEAN,
     shape : BOOLEAN, continuous_contacts : BOOLEAN]
no_components ==
    [attached |-> FALSE, detached |-> FALSE, comp |-> [e \in Entities |-> {}]]

emplace(R, entity, components) == [R EXCEPT !.comp[entity] = @ \cup components]
\* registry.clear<Ts...>().
registry_clear(R, components) == [R EXCEPT !.comp = [e \in Entities |-> @[e] \ components]]
\* registry.destroy of the entities that have a component.
registry_destroy(R, component) ==
    [R EXCEPT !.comp = [e \in Entities |-> IF component \in @[e] THEN {} ELSE @[e]]]

\* make_rigidbody(entity, registry, def), with a gravity that is not zero.
make_rigidbody_components(R, entity, def) ==
    LET dynamic == def.kind = "rb_dynamic"
    IN emplace(R, entity,
        {"position", "orientation", "mass", "mass_inv", "inertia", "inertia_inv",
         "inertia_world_inv", "linvel", "angvel", "graph_node", "rigidbody_tag"}
        \cup (IF dynamic THEN {"gravity"} ELSE {})
        \cup (IF ~def.sensor THEN {"material"} ELSE {})
        \cup (IF ~def.sensor /\ def.is_tire THEN {"tire_material", "tire_state"} ELSE {})
        \cup (IF def.presentation /\ dynamic
              THEN {"present_position", "present_orientation"} ELSE {})
        \cup (IF def.presentation /\ dynamic /\ def.spin_enabled
              THEN {"present_spin_angle"} ELSE {})
        \cup (IF def.shape THEN {"shape", "shape_index", "AABB", "collision_filter"} ELSE {})
        \cup (IF def.continuous_contacts THEN {"continuous_contacts_tag"} ELSE {})
        \cup (CASE def.kind = "rb_dynamic" -> {"dynamic_tag", "procedural_tag"}
                [] def.kind = "rb_kinematic" -> {"kinematic_tag"}
                [] def.kind = "rb_static" -> {"static_tag"})
        \cup (IF dynamic THEN {"continuous"} ELSE {})
        \cup (IF def.spin_enabled /\ dynamic THEN {"spin_angle", "spin"} ELSE {}))

\* make_constraint<T>: pre_make_constraint of a constraint that is a graph
\* edge, and the constraint.
make_constraint_components(R, entity) ==
    emplace(R, entity, {"constraint_impulse", "dirty", "procedural_tag", "graph_edge",
                        "constraint"})
\* make_contact_manifold(manifold_entity, registry, body0, body1, ...).
ecs_make_contact_manifold(R, manifold_entity, restitution) ==
    emplace(R, manifold_entity,
            {"procedural_tag", "contact_manifold", "dirty", "graph_edge"}
            \cup (IF restitution THEN {"contact_manifold_with_restitution"} ELSE {}))
\* island_manager::create_island and the residents of the island.
ecs_create_island(R, island_entity) ==
    LET made == emplace(R, island_entity, {"island", "island_AABB", "island_tag"})
    IN [made EXCEPT !.comp = [e \in Entities |->
            IF "graph_node" \notin @[e] THEN @[e]
            ELSE @[e] \cup (IF "procedural_tag" \in @[e] THEN {"island_resident"}
                                                       ELSE {"multi_island_resident"})]]

\* detach with a registry_clear that takes every component away.
detach_all(R) == [R EXCEPT !.attached = FALSE, !.detached = TRUE,
                          !.comp = [e \in Entities |-> {}]]
\* detach: the components it clears and the manifolds it destroys.
detach(R) ==
    LET cleared == registry_clear(R,
            {"rigidbody_tag", "constraint_tag", "dynamic_tag", "kinematic_tag", "static_tag",
             "procedural_tag", "networked_tag", "external_tag", "network_exclude_tag",
             "sleeping_disabled_tag", "sleeping_tag", "disabled_tag",
             "collision_filter", "shape_index", "AABB", "rolling_tag", "roll_direction",
             "shape", "constraint", "material", "gravity", "center_of_mass",
             "linvel", "angvel", "mass", "mass_inv",
             "inertia", "inertia_inv", "inertia_world_inv",
             "present_position", "present_orientation", "position", "orientation",
             "graph_node", "graph_edge", "island_resident", "multi_island_resident",
             "tree_resident", "null_constraint"})
    IN [registry_destroy(cleared, "contact_manifold") EXCEPT
            !.attached = FALSE, !.detached = TRUE]

(***************************************************************************)
(* serialize of std::vector<bool>: the size, then the bits in sets of      *)
(* uint32_t.  The archive is the sequence of what was written to it.       *)
(***************************************************************************)
\* The longest vector.
MaxBits == 34
\* sizeof(set_type) * 8.
set_num_bits == 32
no_archive == [state |-> "none", vector |-> <<>>, archive |-> <<>>, read |-> <<>>]

\* A value of 32 bits, int or uint32_t, is the function of its bits, bit 0
\* the lowest; the conversion between int and uint32_t keeps the bits.
SetBits == 0 .. (set_num_bits - 1)
no_bits == [b \in SetBits |-> FALSE]
\* v << j for an int v that is 0 or 1 and j below 32.
shift_left(v, j) == [b \in SetBits |-> v = 1 /\ b = j]
bits_or(x, y) == [b \in SetBits |-> x[b] \/ y[b]]
bits_and(x, y) == [b \in SetBits |-> x[b] /\ y[b]]
\* x > 0 for a uint32_t and for an int.
unsigned_positive(x) == \E b \in SetBits : x[b]
int_positive(x) == ~x[set_num_bits - 1] /\ \E b \in SetBits : x[b]

RECURSIVE write_set(_, _, _, _, _)
\* The loop over j of the output: set |= static_cast<bool>(vector[start + j]) << j.
write_set(vector, start, count, j, set) ==
    IF j >= count THEN set
    ELSE write_set(vector, start, count, j + 1,
                   bits_or(set, shift_left(IF vector[start + j + 1] THEN 1 ELSE 0, j)))
\* vector[start + j] = (set & (1 << j)) > 0 with the comparison made on int.
read_bit_signed(set, j) == int_positive(bits_and(set, shift_left(1, j)))
\* vector[start + j] = (set & (1 << j)) > 0: the int is converted to
\* unsigned for the &.
read_bit(set, j) == unsigned_positive(bits_and(set, shift_left(1, j)))
min(a, b) == IF a < b THEN a ELSE b
\* Number of sets of bits: ceiling of the integer division.
num_sets(size) ==
    (size \div set_num_bits) + (IF size % set_num_bits # 0 THEN 1 ELSE 0)
\* serialize to an output archive: indices of the vector start at 0 in the
\* source and at 1 here.
serialize_output(vector) ==
    LET size == Len(vector)
    IN <<size>> \o [i \in 1 .. num_sets(size) |->
           write_set(vector, (i - 1) * set_num_bits,
                     min(size - (i - 1) * set_num_bits, set_num_bits), 0, no_bits)]
\* serialize from an input archive into an empty vector.
serialize_input(archive) ==
    LET size == archive[1]
    IN [k \in 1 .. size |->
           LET i == (k - 1) \div set_num_bits
               j == (k - 1) % set_num_bits
           IN j < min(size - i * set_num_bits, set_num_bits) /\ read_bit(archive[i + 2], j)]

(***************************************************************************)
(* integrate_linacc.  A scalar is an integer and a vector one coordinate;  *)
(* an entity has or has not a linvel, a linacc and the dynamic_tag.        *)
(***************************************************************************)
\* Calls of integrate_linacc.
MaxIntegrations == 3
\* Velocities and accelerations at the start are within this of zero.
MaxSpeed == 1
Movers == {"ent0", "ent1"}
MoverComponents ==
    [has_linvel : BOOLEAN, linvel : -MaxSpeed .. MaxSpeed,
     has_linacc : BOOLEAN, linacc : -MaxSpeed .. MaxSpeed, dynamic_tag : BOOLEAN]
no_mover == [has_linvel |-> FALSE, linvel |-> 0, has_linacc |-> FALSE, linacc |-> 0,
             dynamic_tag |-> FALSE]
\* initial: the components when the first call was made; dt, n: the step
\* of the calls and their number (history).
no_motion == [ent |-> [e \in Movers |-> no_mover], initial |-> [e \in Movers |-> no_mover],
              dt |-> 0, n |-> 0]

\* registry.view<linvel, linacc>().
untagged_view(ent) ==
    {e \in Movers : ent[e].has_linvel /\ ent[e].has_linacc}
\* registry.view<linvel, linacc, dynamic_tag>().
integrate_linacc_view(ent) ==
    {e \in Movers : ent[e].has_linvel /\ ent[e].has_linacc /\ ent[e].dynamic_tag}
\* integrate_linacc(registry, dt).
integrate_linacc(ent, dt) ==
    [e \in Movers |->
        IF e \in integrate_linacc_view(ent)
        THEN [ent[e] EXCEPT !.linvel = @ + ent[e].linacc * dt]
        ELSE ent[e]]

(***************************************************************************)
(* The dirty component and refresh_dirty_entities of the coordinator.  A   *)
(* procedural entity has an island_resident, with one island; an entity    *)
(* that is not procedural has a multi_island_resident, with a set of       *)
(* islands.  The builder of an island collects what the island is sent.    *)
(***************************************************************************)
DirtyIslands == {"island0", "island1"}
DirtyEntities == {"procedural", "static"}
DirtyKinds == {"created", "updated", "destroyed"}
\* dirty: the index sets stand as the kinds that are not empty.
no_dirty_component == [has |-> FALSE, kinds |-> {}, island_entities |-> {}]
no_dirty ==
    [island_resident |-> "none", multi_island_resident |-> {},
     dirty |-> [e \in DirtyEntities |-> no_dirty_component],
     m_delta_builder |-> [i \in DirtyIslands |-> {}]]

\* get_or_emplace<dirty>(entity).created<T>(), updated<T>() or
\* destroyed<T>(), with islands(first, last).
dirty_cud(d, kind, islands) ==
    [has |-> TRUE, kinds |-> d.kinds \cup {kind},
     island_entities |-> d.island_entities \cup islands]
\* The lambda refresh: the created, updated and destroyed components of the
\* entity go into the builder of the island; named is the island_entities
\* of the dirty component at that time (history).
refresh(builders, entity, d, island_entity) ==
    [builders EXCEPT ![island_entity] =
        @ \cup {[entity |-> entity, kind |-> kind, named |-> d.island_entities] :
                    kind \in d.kinds}]
RECURSIVE refresh_islands(_, _, _, _)
refresh_islands(builders, entity, d, islands) ==
    IF islands = {} THEN builders
    ELSE LET island_entity == CHOOSE i \in islands : TRUE
         IN refresh_islands(refresh(builders, entity, d, island_entity), entity, d,
                            islands \ {island_entity})
\* The body of dirty_view.each for one entity.
refresh_entity(D, builders, entity) ==
    IF ~D.dirty[entity].has THEN builders
    ELSE IF entity = "procedural"
    THEN IF D.island_resident # "none"
         THEN refresh(builders, entity, D.dirty[entity], D.island_resident)
         ELSE builders
    ELSE refresh_islands(builders, entity, D.dirty[entity], D.multi_island_resident)
\* refresh_dirty_entities, with the dirty components of its view.
refresh_dirty_view(D) ==
    [D EXCEPT !.m_delta_builder =
                  refresh_entity(D, refresh_entity(D, @, "procedural"), "static"),
              !.dirty = [e \in DirtyEntities |-> no_dirty_component]]

\* The worker and the coordinator of the exchange of deltas: bodyA is in
\* both registries, and nothing is under way.
MaxEchoSteps == 3
MaxEchoQueue == 2
EchoPoints == {"p1", "p2"}
EchoNodes == {"bodyA", "bodyB"}
EchoEdges == {"manifold", "contact"}
EchoEntities == EchoNodes \cup EchoEdges \cup EchoPoints

no_echo ==
    [m_registry |-> {"bodyA"}, dirty |-> {}, m_splitting |-> FALSE,
     m_topology_changed |-> FALSE, m_delta_builder |-> <<>>,
     registry |-> {"bodyA"}, m_new_graph |-> {}, ctx_builder |-> <<>>,
     to_worker |-> <<>>, to_coordinator |-> <<>>,
     steps |-> 0, born |-> [p \in EchoPoints |-> 0],
     sent |-> <<>>, received |-> <<>>, seen |-> {}]


\* The jobs of a parallel_for: job 0 is the caller, the others are child
\* jobs; none is dispatched and there is no context before the call.
MaxJobs == 5
JobIds == 0 .. MaxJobs
no_pfor ==
    [pool |-> no_loops, ctx |-> "none", m_num_jobs |-> 0,
     jobs |-> [j \in JobIds |-> [pc |-> "none", steal |-> no_job, loop |-> 0]],
     deletes |-> 0, deleter |-> 0, after |-> FALSE]

NothingDestroyed == [node |-> Null, edges |-> {}, island_edges |-> {}]

Init ==
    /\ registry = [kind |-> [n \in NodeIds |-> "none"],
                   edge_valid |-> {},
                   node_island |-> [n \in NodeIds |-> Null],
                   edge_island |-> [e \in EdgeIds |-> Null],
                   multi |-> [n \in NodeIds |-> {}],
                   islands |-> <<>>,
                   sleeping_islands |-> {}, sleeping_nodes |-> {},
                   sleeping_edges |-> {},
                   moving |-> {}, sleeping_disabled |-> {},
                   fault |-> FALSE]
    /\ graph = [nodes |-> {}, non_connecting |-> {},
                edges |-> [e \in EdgeIds |-> NoEdge]]
    /\ manager = [new_graph_nodes |-> {}, new_graph_edges |-> {},
                  islands_to_split |-> {}, islands_to_wake_up |-> {},
                  last_time |-> 0]
    /\ batch = 0
    /\ changes = 0
    /\ last_destroyed = NothingDestroyed
    /\ worker = island_coordinator_create_island(FALSE).worker
    /\ queue = island_coordinator_create_island(FALSE).queue
    /\ coordinator = island_coordinator_create_island(FALSE).coordinator
    /\ outbox = 0
    /\ dispatcher = no_jobs
    /\ history = no_history
    /\ importing = not_importing
    /\ pfor = no_pfor
    /\ echo = no_echo
    /\ dirties = no_dirty
    /\ motion = no_motion
    /\ s11n = no_archive
    /\ ecs = no_components
    /\ stepper = no_stepper
    /\ rowcache = no_rows
    /\ contacts = no_contacts
    /\ broadphase = no_bodies
    /\ sleep = not_simulating
    /\ loop = no_loops
    /\ stores = new_stores

\* registry.create() never hands out an identifier that is still stored
\* somewhere (entt gives a recycled identifier a new version); of the free
\* identifiers it hands out the smallest.
node_mentioned(R, M, n) ==
    \/ n \in M.new_graph_nodes
    \/ \E i \in DOMAIN R.islands : n \in R.islands[i].nodes

edge_mentioned(R, M, e) ==
    \/ e \in M.new_graph_edges
    \/ \E i \in DOMAIN R.islands : e \in R.islands[i].edges

\* make_rigidbody: the tag, the graph node, then on_construct_graph_node.
make_rigidbody(n, k) ==
    /\ ~registry.fault /\ batch < MaxBatch /\ changes < MaxChanges
    /\ n = SetMin({m \in NodeIds : registry.kind[m] = "none"
                                    /\ ~node_mentioned(registry, manager, m)} \cup {MaxNodes + 1})
    /\ LET a == on_construct_graph_node([registry EXCEPT !.kind[n] = k], manager, n)
       IN /\ registry' = a.R
          /\ manager' = a.M
    /\ graph' = insert_node(graph, n, k # "dynamic")
    /\ batch' = batch + 1 /\ changes' = changes + 1
    /\ last_destroyed' = NothingDestroyed
    /\ UNCHANGED <<worker, queue, outbox, dispatcher, coordinator, history>>
    /\ UNCHANGED later_vars

\* make_constraint / make_contact_manifold between two bodies: the graph
\* edge, then on_construct_graph_edge.
pre_make_constraint(g, R, M, e, body0, body1) ==
    LET a == on_construct_graph_edge([R EXCEPT !.edge_valid = @ \cup {e}], M, e)
    IN [R |-> a.R, M |-> a.M, g |-> insert_edge(g, e, body0, body1)]

\* The identifier registry.create() gives the next constraint, MaxEdges + 1
\* when the model has none left.
next_edge(R, M) ==
    SetMin({f \in EdgeIds : f \notin R.edge_valid /\ ~edge_mentioned(R, M, f)}
           \cup {MaxEdges + 1})

make_constraint(e, body0, body1) ==
    /\ ~registry.fault /\ batch < MaxBatch /\ changes < MaxChanges
    /\ e = next_edge(registry, manager)
    /\ valid_node(registry, body0) /\ valid_node(registry, body1)
    /\ body0 < body1
    /\ procedural(registry, body0) \/ procedural(registry, body1)
    /\ LET a == pre_make_constraint(graph, registry, manager, e, body0, body1)
       IN /\ registry' = a.R
          /\ manager' = a.M
          /\ graph' = a.g
    /\ batch' = batch + 1 /\ changes' = changes + 1
    /\ last_destroyed' = NothingDestroyed
    /\ UNCHANGED <<worker, queue, outbox, dispatcher, coordinator, history>>
    /\ UNCHANGED later_vars

\* registry.destroy(body).
destroy_body(n, ub) ==
    /\ ~registry.fault /\ batch < MaxBatch /\ changes < MaxChanges
    /\ valid_node(registry, n)
    /\ LET a == on_destroy_graph_node(graph, registry, manager, n, ub)
           b == IF a.R.fault THEN a
                ELSE IF procedural(registry, n)
                THEN on_destroy_island_resident(a.R, a.M, a.R.node_island[n], {n}, {}, ub)
                ELSE on_destroy_multi_island_resident(a.R, a.M, n, ub)
       IN /\ registry' = IF b.R.fault THEN b.R ELSE destroy_node_entity(b.R, n)
          /\ manager' = b.M
          /\ graph' = a.g
    /\ batch' = batch + 1 /\ changes' = changes + 1
    /\ last_destroyed' = [node |-> n, edges |-> visit_edges(graph, n),
                          island_edges |-> {e \in visit_edges(graph, n) :
                                \E i \in DOMAIN registry.islands :
                                    e \in registry.islands[i].edges}]
    /\ UNCHANGED <<worker, queue, outbox, dispatcher, coordinator, history>>
    /\ UNCHANGED later_vars

\* registry.destroy(constraint or manifold).
destroy_constraint_entity(g, R, M, e, ub) ==
    LET a == on_destroy_island_resident(R, M, R.edge_island[e], {}, {e}, ub)
    IN [R |-> IF a.R.fault THEN a.R ELSE destroy_edge_entity(a.R, e),
        M |-> a.M, g |-> on_destroy_graph_edge(g, e)]

destroy_constraint(e, ub) ==
    /\ ~registry.fault /\ batch < MaxBatch /\ changes < MaxChanges
    /\ e \in registry.edge_valid
    /\ LET a == destroy_constraint_entity(graph, registry, manager, e, ub)
       IN /\ registry' = a.R
          /\ manager' = a.M
          /\ graph' = a.g
    /\ batch' = batch + 1 /\ changes' = changes + 1
    /\ last_destroyed' = NothingDestroyed
    /\ UNCHANGED <<worker, queue, outbox, dispatcher, coordinator, history>>
    /\ UNCHANGED later_vars

\* island_manager::update(timestamp).
island_manager_update(timestamp, pref, pick, intact) ==
    /\ ~registry.fault
    /\ timestamp <= MaxTime
    /\ LET a == update(graph, registry, manager, timestamp, pref, pick, intact)
       IN /\ registry' = renumbered(a.R)
          /\ manager' = a.M
    /\ UNCHANGED <<graph, changes>>
    /\ batch' = 0
    /\ last_destroyed' = NothingDestroyed
    /\ UNCHANGED <<worker, queue, outbox, dispatcher, coordinator, history>>
    /\ UNCHANGED later_vars

Next ==
    \/ \E n \in NodeIds, k \in Kinds : make_rigidbody(n, k)
    \/ \E e \in EdgeIds, body0, body1 \in NodeIds : make_constraint(e, body0, body1)
    \/ \E n \in NodeIds, ub \in {"abort", "continue"} : destroy_body(n, ub)
    \/ \E e \in EdgeIds, ub \in {"abort", "continue"} : destroy_constraint(e, ub)
    \/ \E timestamp \in {manager.last_time, manager.last_time + island_time_to_sleep + 1},
          pref \in {"lo", "hi"}, pick \in {"lo", "hi"}, intact \in BOOLEAN :
            island_manager_update(timestamp, pref, pick, intact)

Spec == Init /\ [][Next]_vars

(***************************************************************************)
(* Claims.                                                                 *)
(***************************************************************************)
updated == batch = 0 /\ ~registry.fault

dynamic_bodies == {n \in NodeIds : registry.kind[n] = "dynamic"}

islands_holding(n) == {i \in DOMAIN registry.islands : n \in registry.islands[i].nodes}

procedural_nodes(R, i) == {n \in R.islands[i].nodes : procedural(R, n)}

\* C1: at the end of every update each dynamic body refers to an island, that
\* island's node set holds the body and no other island's node set does.
C1_DynamicBodyInOneIsland ==
    updated => \A n \in dynamic_bodies :
        /\ registry.node_island[n] # Null
        /\ islands_holding(n) = {registry.node_island[n]}
C1_Witness ==
    /\ updated
    /\ Cardinality(DOMAIN registry.islands) >= 2
    /\ \E i \in DOMAIN registry.islands :
            Cardinality(procedural_nodes(registry, i)) >= 2

components(g, R) ==
    {{m \in traverse(g, n).nodes : procedural(R, m)} :
        n \in {x \in NodeIds : procedural(R, x)}}

one_island_per_component(g, R) ==
    /\ \A i \in DOMAIN R.islands : procedural_nodes(R, i) \in components(g, R)
    /\ \A c \in components(g, R) :
        Cardinality({i \in DOMAIN R.islands : procedural_nodes(R, i) = c}) = 1

UpdateChoices == [pref : {"lo", "hi"}, pick : {"lo", "hi"}, intact : BOOLEAN]

\* The edges whose removal, the only change since the last update, leaves
\* the two dynamic bodies it joined in different components.
disconnecting_edges ==
    {e \in registry.edge_valid :
        /\ has_edge(graph, e)
        /\ valid_island(registry, registry.edge_island[e])
        /\ LET n0 == edge_nodes(graph, e)[1]
               n1 == edge_nodes(graph, e)[2]
           IN /\ procedural(registry, n0) /\ procedural(registry, n1)
              /\ {n0, n1} \subseteq registry.islands[registry.edge_island[e]].nodes
              /\ n1 \notin traverse(remove_edge(graph, e), n0).nodes}

mergeable_pairs ==
    {p \in NodeIds \X NodeIds :
        /\ p[1] < p[2]
        /\ procedural(registry, p[1]) /\ procedural(registry, p[2])
        /\ valid_island(registry, registry.node_island[p[1]])
        /\ valid_island(registry, registry.node_island[p[2]])
        /\ registry.node_island[p[1]] # registry.node_island[p[2]]
        /\ next_edge(registry, manager) \in EdgeIds}

\* The registry `post` holds island `kept` with everything islands `kept` and
\* `gone` of R held and edge e, awake, and nothing of `gone`.
merged_into(R, post, kept, gone, e) ==
    /\ valid_island(post, kept) /\ ~valid_island(post, gone)
    /\ island_size(R, gone) <= island_size(R, kept)
    /\ R.islands[kept].nodes \cup R.islands[gone].nodes \subseteq post.islands[kept].nodes
    /\ R.islands[kept].edges \cup R.islands[gone].edges \cup {e}
            \subseteq post.islands[kept].edges
    /\ \A n \in R.islands[kept].nodes \cup R.islands[gone].nodes :
            IF procedural(R, n) THEN post.node_island[n] = kept
            ELSE kept \in post.multi[n]
    /\ \A n \in NodeIds : post.node_island[n] # gone /\ gone \notin post.multi[n]
    /\ \A f \in EdgeIds : post.edge_island[f] # gone
    /\ kept \notin post.sleeping_islands

partition(R) == {procedural_nodes(R, i) : i \in DOMAIN R.islands} \ {{}}

C6_SharedBodyJoinsNoIslands ==
    updated => \A s \in NodeIds : \A a, b \in dynamic_bodies :
        ( /\ valid_node(registry, s) /\ ~procedural(registry, s)
          /\ a # b
          /\ s \in visit_neighbors(graph, a) /\ s \in visit_neighbors(graph, b)
          /\ b \notin traverse(graph, a).nodes )
        => /\ registry.node_island[a] # registry.node_island[b]
           /\ \A x \in {a, b} :
                /\ valid_island(registry, registry.node_island[x])
                /\ s \in registry.islands[registry.node_island[x]].nodes
                /\ registry.node_island[x] \in registry.multi[s]
C6_Witness ==
    /\ updated
    /\ \E s \in NodeIds : \E a, b \in dynamic_bodies :
        /\ valid_node(registry, s) /\ ~procedural(registry, s)
        /\ a # b
        /\ s \in visit_neighbors(graph, a) /\ s \in visit_neighbors(graph, b)
        /\ b \notin traverse(graph, a).nodes
        /\ registry.multi[s] = {registry.node_island[a], registry.node_island[b]}

\* C7: when a body has been destroyed none of its edges is a valid entity,
\* the graph has no edge at the body, and no island lists one of its edges.
C7_DestroyBodyDestroysEdges ==
    (~registry.fault /\ last_destroyed.node # Null) =>
        /\ visit_edges(graph, last_destroyed.node) = {}
        /\ \A e \in last_destroyed.edges :
            /\ e \notin registry.edge_valid
            /\ ~has_edge(graph, e)
            /\ \A i \in DOMAIN registry.islands : e \notin registry.islands[i].edges

C7_Witness ==
    /\ ~registry.fault
    /\ last_destroyed.island_edges # {}
    /\ registry.islands # <<>>

(***************************************************************************)
(* The worker's job and the coordinator, step by step.  An invocation of   *)
(* the job runs update up to its call of maybe_reschedule in one step;     *)
(* the loads and read-modify-writes of the atomics m_splitting and         *)
(* m_reschedule_counter that follow are steps of their own, on the         *)
(* worker's thread and on the coordinator's.                               *)
(***************************************************************************)
island_worker_func(in) ==
    /\ ~worker.fault
    /\ dispatcher.jobs > 0
    /\ threads(dispatcher) < MaxThreads
    /\ LET S == [w |-> worker, q |-> queue, out |-> outbox,
                 jobs |-> dispatcher.jobs - 1, async |-> dispatcher.async,
                 h |-> [history EXCEPT !.parked = FALSE, !.requeued_by = "none"],
                 top |-> ids(queue), handled |-> {}, ret |-> FALSE, tail |-> "none"]
           T == IF worker.deleted THEN [S EXCEPT !.w.fault = TRUE]
                ELSE IF is_terminating(worker)
                THEN [S EXCEPT !.w = [do_terminate(@) EXCEPT !.deleted = TRUE]]
                ELSE worker_update(S, in)
       IN /\ worker' = T.w
          /\ queue' = T.q
          /\ outbox' = T.out
          /\ history' = T.h
          /\ dispatcher' = moved([dispatcher EXCEPT !.jobs = T.jobs, !.async = T.async],
                                 "none", T.tail)
    /\ UNCHANGED <<coordinator, registry, graph, manager, batch, changes, last_destroyed>>
    /\ UNCHANGED later_vars

\* A phase that ran in parallel is over: its last sub-job dispatches m_this_job.
async_done ==
    /\ ~worker.fault
    /\ dispatcher.async > 0
    /\ dispatcher' = [dispatcher EXCEPT !.async = @ - 1, !.jobs = @ + 1]
    /\ history' = enqueued(history, "async")
    /\ UNCHANGED <<worker, queue, outbox, coordinator,
                   registry, graph, manager, batch, changes, last_destroyed>>
    /\ UNCHANGED later_vars

\* maybe_reschedule, line 614: the load of m_splitting.
maybe_reschedule_load(ub) ==
    /\ ~worker.fault
    /\ dispatcher.running["maybe_reschedule"] > 0
    /\ worker' = IF worker.deleted /\ ub = "abort" THEN [worker EXCEPT !.fault = TRUE]
                 ELSE worker
    /\ dispatcher' = moved(dispatcher, "maybe_reschedule",
                           IF worker.m_splitting THEN "none" ELSE "exchange")
    /\ UNCHANGED <<queue, outbox, coordinator, history,
                   registry, graph, manager, batch, changes, last_destroyed>>
    /\ UNCHANGED later_vars

\* maybe_reschedule, lines 616-632: the exchange of the counter for zero.
maybe_reschedule_exchange(ub) ==
    /\ ~worker.fault
    /\ dispatcher.running["exchange"] > 0
    /\ LET reschedule_count == worker.m_reschedule_counter
           failed == (reschedule_count = 0 \/ worker.deleted) /\ ub = "abort"
           parks == /\ reschedule_count = 1 /\ worker.sleeping /\ ~worker.m_splitting
                    /\ threads(dispatcher) = 1
                    /\ dispatcher.jobs = 0 /\ dispatcher.async = 0
       IN /\ worker' = [worker EXCEPT !.m_reschedule_counter = 0, !.fault = failed]
          /\ dispatcher' = moved(dispatcher, "exchange",
                                 maybe_reschedule_count(worker, reschedule_count))
          /\ history' = IF parks THEN [history EXCEPT !.parked = TRUE] ELSE history
    /\ UNCHANGED <<queue, outbox, coordinator,
                   registry, graph, manager, batch, changes, last_destroyed>>
    /\ UNCHANGED later_vars

\* reschedule_later, lines 637-651.
reschedule_later(ub) ==
    /\ ~worker.fault
    /\ dispatcher.running["reschedule_later"] > 0
    /\ worker' = [fetch_add(worker) EXCEPT !.fault = worker.deleted /\ ub = "abort"]
    /\ dispatcher' = [moved(dispatcher, "reschedule_later", "none") EXCEPT
                         !.jobs = IF scheduled(worker) THEN @ + 1 ELSE @]
    /\ history' = IF scheduled(worker) THEN enqueued(history, "worker") ELSE history
    /\ UNCHANGED <<queue, outbox, coordinator,
                   registry, graph, manager, batch, changes, last_destroyed>>
    /\ UNCHANGED later_vars

\* reschedule on the worker's thread, line 658: the load of m_splitting.
reschedule_load(ub) ==
    /\ ~worker.fault
    /\ dispatcher.running["reschedule"] > 0
    /\ worker' = IF worker.deleted /\ ub = "abort" THEN [worker EXCEPT !.fault = TRUE]
                 ELSE worker
    /\ dispatcher' = moved(dispatcher, "reschedule",
                           IF worker.m_splitting THEN "none" ELSE "reschedule_add")
    /\ UNCHANGED <<queue, outbox, coordinator, history,
                   registry, graph, manager, batch, changes, last_destroyed>>
    /\ UNCHANGED later_vars

\* reschedule on the worker's thread, lines 661-664.
reschedule_add(ub) ==
    /\ ~worker.fault
    /\ dispatcher.running["reschedule_add"] > 0
    /\ worker' = [fetch_add(worker) EXCEPT !.fault = worker.deleted /\ ub = "abort"]
    /\ dispatcher' = [moved(dispatcher, "reschedule_add", "none") EXCEPT
                         !.jobs = IF scheduled(worker) THEN @ + 1 ELSE @]
    /\ history' = IF scheduled(worker) THEN enqueued(history, "worker") ELSE history
    /\ UNCHANGED <<queue, outbox, coordinator,
                   registry, graph, manager, batch, changes, last_destroyed>>
    /\ UNCHANGED later_vars

\* island_worker_context::send, called by set_paused, step_simulation,
\* set_fixed_dt and settings_changed of the coordinator.
send(msg) ==
    /\ ~worker.fault
    /\ coordinator.ctx /\ coordinator.pc = "idle"
    /\ coordinator.sent < MaxMessages
    /\ msg.type \in {"set_paused", "step_simulation", "set_fixed_dt", "set_settings"}
    /\ queue' = message_queue_send(queue, [id |-> coordinator.sent + 1,
                                           type |-> msg.type, arg |-> msg.arg])
    /\ coordinator' = [coordinator EXCEPT !.m_pending_flush = TRUE, !.sent = @ + 1]
    /\ UNCHANGED <<worker, outbox, dispatcher, history,
                   registry, graph, manager, batch, changes, last_destroyed>>
    /\ UNCHANGED later_vars

\* island_coordinator::update up to init_new_nodes_and_edges: read_messages
\* publishes the worker's split_island; merge_islands terminates the worker
\* of an island that is merged into a bigger one.
island_coordinator_update(merge) ==
    /\ ~worker.fault
    /\ coordinator.ctx /\ coordinator.pc = "idle"
    /\ coordinator' = [coordinator EXCEPT
                          !.m_islands_to_split = @ \/ outbox > 0,
                          !.pc = IF merge THEN "terminate" ELSE "sync"]
    /\ outbox' = 0
    /\ UNCHANGED <<worker, queue, dispatcher, history,
                   registry, graph, manager, batch, changes, last_destroyed>>
    /\ UNCHANGED later_vars

\* island_coordinator::sync up to the flush: the delta of the island, with
\* a wake_up_island when the delta needs the island awake.
sync(delta, needs_wakeup) ==
    /\ ~worker.fault
    /\ coordinator.ctx /\ coordinator.pc = "sync"
    /\ LET n == IF delta = "empty" THEN 0 ELSE IF needs_wakeup THEN 2 ELSE 1
           q1 == IF n > 0
                 THEN message_queue_send(queue, [id |-> coordinator.sent + 1,
                          type |-> "island_delta", arg |-> delta])
                 ELSE queue
           q2 == IF n > 1
                 THEN message_queue_send(q1, [id |-> coordinator.sent + 2,
                          type |-> "wake_up_island", arg |-> "none"])
                 ELSE q1
       IN /\ coordinator.sent + n <= MaxMessages
          /\ delta = "empty" => ~needs_wakeup
          /\ queue' = q2
          /\ coordinator' = [coordinator EXCEPT !.sent = @ + n, !.pc = "flush",
                                !.m_pending_flush = @ \/ n > 0]
    /\ UNCHANGED <<worker, outbox, dispatcher, history,
                   registry, graph, manager, batch, changes, last_destroyed>>
    /\ UNCHANGED later_vars

\* island_worker_context::flush and the load of m_splitting in reschedule.
flush ==
    /\ ~worker.fault
    /\ coordinator.ctx /\ coordinator.pc = "flush"
    /\ coordinator' =
          IF ~coordinator.m_pending_flush THEN [coordinator EXCEPT !.pc = "split_islands"]
          ELSE IF worker.m_splitting
          THEN [coordinator EXCEPT !.pc = "split_islands", !.m_pending_flush = FALSE]
          ELSE [coordinator EXCEPT !.pc = "flush_add"]
    /\ UNCHANGED <<worker, queue, outbox, dispatcher, history,
                   registry, graph, manager, batch, changes, last_destroyed>>
    /\ UNCHANGED later_vars

\* The fetch_add of the reschedule that flush calls.
flush_add ==
    /\ ~worker.fault
    /\ coordinator.ctx /\ coordinator.pc = "flush_add"
    /\ worker' = fetch_add(worker)
    /\ dispatcher' = [dispatcher EXCEPT !.jobs = IF scheduled(worker) THEN @ + 1 ELSE @]
    /\ history' = IF scheduled(worker) THEN enqueued(history, "flush") ELSE history
    /\ coordinator' = [coordinator EXCEPT !.pc = "split_islands", !.m_pending_flush = FALSE]
    /\ UNCHANGED <<queue, outbox,
                   registry, graph, manager, batch, changes, last_destroyed>>
    /\ UNCHANGED later_vars

\* island_worker::split, run by the coordinator on its own thread: with more
\* than one connected component the entities of the smaller ones are
\* destroyed, which leaves the graph of the worker in one component.
split_whatever_is_connected(S, connected_components) ==
    LET a == process_messages(S)
    IN reschedule_now([a EXCEPT !.w.m_splitting = FALSE, !.h.removed = TRUE,
                                !.h.components = connected_components])
split(S, connected_components) ==
    LET a == process_messages(S)
    IN IF connected_components <= 1
       THEN reschedule_now([a EXCEPT !.w.m_splitting = FALSE,
                                     !.h.components = connected_components])
       ELSE reschedule_now([a EXCEPT !.w.m_splitting = FALSE, !.h.removed = TRUE,
                                     !.h.components = connected_components])
\* The graph had several connected components when the worker asked for the
\* split; only a delta that split() imports can have joined them.
split_components(q) ==
    IF \E k \in DOMAIN q : q[k].type = "island_delta" THEN {1, 2} ELSE {2}

\* island_coordinator::split_islands, the last call of update; split_island
\* reads the worker's messages again after a split into several components.
island_coordinator_split_islands(ub, connected_components) ==
    /\ ~worker.fault
    /\ coordinator.ctx /\ coordinator.pc = "split_islands"
    /\ LET S == [w |-> worker, q |-> queue, out |-> outbox, jobs |-> dispatcher.jobs,
                 async |-> dispatcher.async, h |-> history,
                 top |-> ids(queue), handled |-> {}, ret |-> FALSE, tail |-> "none"]
           T == IF ~coordinator.m_islands_to_split THEN S
                ELSE IF ~worker.m_splitting /\ ub = "abort" THEN [S EXCEPT !.w.fault = TRUE]
                ELSE [split(S, connected_components) EXCEPT
                         !.h = [enqueued(@, "split") EXCEPT
                                   !.created = connected_components > 1]]
       IN /\ connected_components \in split_components(queue)
          /\ worker' = T.w
          /\ queue' = T.q
          /\ history' = T.h
          /\ dispatcher' = [dispatcher EXCEPT !.jobs = T.jobs]
          /\ outbox' = IF coordinator.m_islands_to_split /\ ~T.w.fault
                           /\ connected_components > 1
                        THEN 0 ELSE outbox
    /\ coordinator' = [coordinator EXCEPT !.pc = "idle", !.m_islands_to_split = FALSE]
    /\ UNCHANGED <<registry, graph, manager, batch, changes, last_destroyed>>
    /\ UNCHANGED later_vars

\* island_coordinator::split_island for an island whose context a merge of
\* the same update has erased: it returns at its first line and
\* split_islands clears the list.
split_island_erased ==
    /\ ~worker.fault
    /\ ~coordinator.ctx /\ coordinator.pc = "idle" /\ coordinator.m_islands_to_split
    /\ coordinator' = [coordinator EXCEPT !.m_islands_to_split = FALSE]
    /\ UNCHANGED <<worker, queue, outbox, dispatcher, history,
                   registry, graph, manager, batch, changes, last_destroyed>>
    /\ UNCHANGED later_vars

\* island_coordinator::~island_coordinator.
island_coordinator_destroy ==
    /\ ~worker.fault
    /\ coordinator.ctx /\ coordinator.pc = "idle"
    /\ coordinator' = [coordinator EXCEPT !.pc = "terminate"]
    /\ UNCHANGED <<worker, queue, outbox, dispatcher, history,
                   registry, graph, manager, batch, changes, last_destroyed>>
    /\ UNCHANGED later_vars

\* island_worker::terminate, line 909: the split is cancelled.
terminate_cancel_split ==
    /\ ~worker.fault
    /\ coordinator.ctx /\ coordinator.pc = "terminate"
    /\ worker' = [worker EXCEPT !.m_splitting = FALSE]
    /\ coordinator' = [coordinator EXCEPT !.pc = "terminate_store"]
    /\ UNCHANGED <<queue, outbox, dispatcher, history,
                   registry, graph, manager, batch, changes, last_destroyed>>
    /\ UNCHANGED later_vars

\* island_worker::terminate, line 910.
terminate_store ==
    /\ ~worker.fault
    /\ coordinator.ctx /\ coordinator.pc = "terminate_store"
    /\ worker' = [worker EXCEPT !.m_terminating = TRUE]
    /\ coordinator' = [coordinator EXCEPT !.pc = "terminate_reschedule"]
    /\ UNCHANGED <<queue, outbox, dispatcher, history,
                   registry, graph, manager, batch, changes, last_destroyed>>
    /\ UNCHANGED later_vars

\* island_worker::terminate, line 911: the load of m_splitting in
\* reschedule; merge_islands erases the context when terminate returns.
terminate_reschedule ==
    /\ ~worker.fault
    /\ coordinator.ctx /\ coordinator.pc = "terminate_reschedule"
    /\ coordinator' = IF worker.m_splitting
                      THEN [coordinator EXCEPT !.pc = "idle", !.ctx = FALSE]
                      ELSE [coordinator EXCEPT !.pc = "terminate_add"]
    /\ UNCHANGED <<worker, queue, outbox, dispatcher, history,
                   registry, graph, manager, batch, changes, last_destroyed>>
    /\ UNCHANGED later_vars

\* The fetch_add of the reschedule that terminate calls.
terminate_add ==
    /\ ~worker.fault
    /\ coordinator.ctx /\ coordinator.pc = "terminate_add"
    /\ worker' = fetch_add(worker)
    /\ dispatcher' = [dispatcher EXCEPT !.jobs = IF scheduled(worker) THEN @ + 1 ELSE @]
    /\ history' = IF scheduled(worker) THEN enqueued(history, "terminate") ELSE history
    /\ coordinator' = [coordinator EXCEPT !.pc = "idle", !.ctx = FALSE]
    /\ UNCHANGED <<queue, outbox,
                   registry, graph, manager, batch, changes, last_destroyed>>
    /\ UNCHANGED later_vars

WorkerNext ==
    \/ \E in \in update_inputs(worker) : island_worker_func(in)
    \/ async_done
    \/ \E ub \in {"abort", "continue"} : maybe_reschedule_load(ub)
    \/ \E ub \in {"abort", "continue"} : maybe_reschedule_exchange(ub)
    \/ \E ub \in {"abort", "continue"} : reschedule_later(ub)
    \/ \E ub \in {"abort", "continue"} : reschedule_load(ub)
    \/ \E ub \in {"abort", "continue"} : reschedule_add(ub)
    \/ \E msg \in Messages : send(msg)
    \/ \E merge \in BOOLEAN : island_coordinator_update(merge)
    \/ \E delta \in {"empty", "none", "sleep", "wake", "destroy_edge"} :
          \E needs_wakeup \in BOOLEAN : sync(delta, needs_wakeup)
    \/ flush
    \/ flush_add
    \/ \E ub \in {"abort", "continue"} :
          \E connected_components \in {1, 2} :
              island_coordinator_split_islands(ub, connected_components)
    \/ split_island_erased
    \/ island_coordinator_destroy
    \/ terminate_cancel_split
    \/ terminate_store
    \/ terminate_reschedule
    \/ terminate_add

WorkerSpec == Init /\ [][WorkerNext]_vars

\* C8: once terminate() has returned, the worker is invoked once more (its
\* job is in the dispatcher, an invocation of it is still running or a
\* parallel phase of it is still to dispatch it) until that invocation has
\* marked the worker terminated, in whatever state terminate() found it.
C8_TerminatedWorkerIsInvokedAgain ==
    (~coordinator.ctx /\ ~worker.fault /\ ~worker.m_terminated) =>
        dispatcher.jobs > 0 \/ threads(dispatcher) > 0 \/ dispatcher.async > 0

C10_MessagesHandledAtTopOfStep ==
    ~worker.fault =>
        /\ ~history.out_of_order
        /\ ~history.mid_step
        /\ history.missed = {}

\* C12: a split request is only queued when the coordinator reads it, with
\* nothing changed in the worker; the worker destroys the entities of the
\* smaller components only in the split_islands call that ends the same
\* update, after init_new_nodes_and_edges, sync and the flush; no request
\* stays queued when update returns, and while the worker waits for split()
\* it has removed nothing.
C12_Step ==
    /\ (coordinator'.m_islands_to_split /\ ~coordinator.m_islands_to_split) =>
            /\ coordinator.pc = "idle"
            /\ worker' = worker /\ history' = history
    /\ (history'.removed /\ ~history.removed) =>
            /\ coordinator.pc = "split_islands" /\ coordinator.m_islands_to_split
            /\ worker.m_splitting /\ ~worker'.m_splitting
    /\ (coordinator'.pc = "split_islands" /\ coordinator.pc # "split_islands") =>
            coordinator.pc \in {"flush", "flush_add"}
    /\ (coordinator'.pc = "flush" /\ coordinator.pc # "flush") => coordinator.pc = "sync"
    /\ (coordinator'.pc = "sync" /\ coordinator.pc # "sync") => coordinator.pc = "idle"
C12_SplitDeferredToEndOfUpdate ==
    /\ []((coordinator.ctx /\ coordinator.pc = "idle") => ~coordinator.m_islands_to_split)
    /\ []((worker.m_splitting /\ ~worker.fault) => ~history.removed)
    /\ [][C12_Step]_vars
C12_Witness ==
    /\ history.removed /\ ~worker.m_splitting /\ ~worker.fault
    /\ coordinator.ctx /\ coordinator.pc = "idle"
    /\ dispatcher.jobs > 0

\* C31: whenever the coordinator carries out split() on the worker, no
\* invocation of the worker's job is running on a thread of the dispatcher,
\* however the worker's store of m_splitting, its split_island message and
\* the end of its invocation interleave with the coordinator.
C31_Step ==
    (/\ coordinator.pc = "split_islands" /\ coordinator.m_islands_to_split
     /\ coordinator'.pc = "idle") => threads(dispatcher) = 0
C31_NoInvocationRunsDuringSplit == [][C31_Step]_vars

\* C32: at most one instance of the worker's job is queued in or running on
\* the job dispatcher at any time: no two instances are queued, and none is
\* queued while an invocation has still to take the count of reschedule
\* requests in maybe_reschedule.
C32_AtMostOneJobInstance ==
    ~worker.fault =>
        /\ dispatcher.jobs <= 1
        /\ dispatcher.jobs + dispatcher.running["maybe_reschedule"]
               + dispatcher.running["exchange"] <= 1

\* The job dispatcher runs every job handed to it and every invocation runs
\* to its end; the application calls island_coordinator::update again and
\* again, and a call of update or of terminate runs to its end.
WorkerFairness ==
    /\ WF_vars(\E in \in update_inputs(worker) : island_worker_func(in))
    /\ WF_vars(async_done)
    /\ WF_vars(\E ub \in {"abort", "continue"} : maybe_reschedule_load(ub))
    /\ WF_vars(\E ub \in {"abort", "continue"} : maybe_reschedule_exchange(ub))
    /\ WF_vars(\E ub \in {"abort", "continue"} : reschedule_later(ub))
    /\ WF_vars(\E ub \in {"abort", "continue"} : reschedule_load(ub))
    /\ WF_vars(\E ub \in {"abort", "continue"} : reschedule_add(ub))
    /\ WF_vars(\E merge \in BOOLEAN : island_coordinator_update(merge))
    /\ WF_vars(\E delta \in {"empty", "none", "sleep", "wake", "destroy_edge"} :
                  \E needs_wakeup \in BOOLEAN : sync(delta, needs_wakeup))
    /\ WF_vars(flush)
    /\ WF_vars(flush_add)
    /\ WF_vars(\E ub \in {"abort", "continue"} :
                  \E connected_components \in {1, 2} :
                      island_coordinator_split_islands(ub, connected_components))
    /\ WF_vars(terminate_cancel_split)
    /\ WF_vars(terminate_store)
    /\ WF_vars(terminate_reschedule)
    /\ WF_vars(terminate_add)
WorkerFairSpec == WorkerSpec /\ WorkerFairness

\* Message k is in the worker's queue and the coordinator has flushed since
\* it sent it.
flushed(k) ==
    /\ k \in ids(queue) /\ ~coordinator.m_pending_flush
    /\ coordinator.ctx /\ coordinator.pc \in {"split_islands", "idle"}
\* Every flushed message is taken from the queue by the worker, unless the
\* worker is terminated first or an assertion of it has failed.
C33_FlushedMessageIsTaken ==
    \A k \in 1..MaxMessages :
        flushed(k) ~> (k \notin ids(queue) \/ ~coordinator.ctx \/ worker.fault)
\* A message that leaves the queue is passed to a handler of the worker.
C33_Step ==
    \A k \in DOMAIN queue :
        queue[k].id \notin ids(queue') => queue[k].type \in sinks
\* C33: every message the coordinator sends to a live worker and then
\* flushes is eventually handled by the worker: it is taken from the queue,
\* whether the worker was parked, idle or in the middle of a step at the
\* flush, and it is passed to a handler when it is taken.
C33_FlushedMessageIsHandled == C33_FlushedMessageIsTaken /\ [][C33_Step]_vars

\* C34: every step of the worker runs begin_step, the solver, the
\* broadphase, the narrowphase and finish_step in this order, each once,
\* and no state assertion at the top of a phase fails, whether the phases
\* run inline, by immediate rescheduling or after asynchronous jobs, and
\* also when a step_simulation message forces the state to begin_step.
C34_PhasesInOrder ==
    ~worker.fault => ~history.disorder /\ ~history.asserted

\* C37: a split that finds the worker's graph in one connected component
\* again changes nothing: the worker destroys no entity, sends nothing, the
\* coordinator creates no island, and the worker clears m_splitting and its
\* job is handed to the dispatcher; a split of an island whose context is
\* gone changes nothing but the coordinator's list.
C37_Step ==
    /\ (/\ coordinator.ctx /\ coordinator.pc = "split_islands"
        /\ coordinator.m_islands_to_split /\ coordinator'.pc = "idle"
        /\ ~worker'.fault /\ history'.components <= 1) =>
            /\ ~history'.removed /\ ~history'.created
            /\ outbox' = outbox
            /\ ~worker'.m_splitting
            /\ dispatcher'.jobs = dispatcher.jobs + 1
    /\ (~coordinator.ctx /\ coordinator.m_islands_to_split
        /\ ~coordinator'.m_islands_to_split) =>
            /\ worker' = worker /\ queue' = queue /\ outbox' = outbox
            /\ dispatcher' = dispatcher /\ history' = history
C37_SplitOfOneComponentChangesNothing == [][C37_Step]_vars
C37_Witness ==
    /\ history.components = 1 /\ ~history.removed /\ ~worker.m_splitting
    /\ dispatcher.jobs > 0 /\ ~worker.fault /\ coordinator.ctx

\* C35: a node or edge that is destroyed before the update that would have
\* put it into an island is destroyed without an invalid lookup, the update
\* that follows completes, and after it no island holds a destroyed entity.
C35_Step ==
    /\ (\/ \E n \in manager.new_graph_nodes : n \in graph.nodes /\ n \notin graph'.nodes
        \/ \E e \in manager.new_graph_edges : has_edge(graph, e) /\ ~has_edge(graph', e))
            => ~registry'.fault
    /\ (batch > 0 /\ batch' = 0) =>
            /\ ~registry'.fault
            /\ \A i \in DOMAIN registry'.islands :
                  /\ \A n \in registry'.islands[i].nodes : valid_node(registry', n)
                  /\ registry'.islands[i].edges \subseteq registry'.edge_valid
C35_DestroyedBeforeUpdateIsSafe == [][C35_Step]_vars

(***************************************************************************)
(* on_island_delta, loop by loop.                                          *)
(***************************************************************************)
on_island_delta_import(side, d) ==
    /\ importing.pc = 0
    /\ ~importing.orphan
    /\ importing.side \in {"none", side}
    /\ d \in DeltaChoices /\ finish(importing.graph, d)
    /\ importing' = [importing EXCEPT !.side = side, !.pc = 1, !.delta = d,
                                      !.graph = import(importing.graph, d)]
    /\ UNCHANGED <<manager_vars, worker_vars, stores, loop, sleep, broadphase, contacts, rowcache, stepper, ecs, s11n, motion, dirties, echo, pfor>>

on_island_delta_created_for_each ==
    /\ importing.pc > 0
    /\ importing' = created_for_each(importing)
    /\ UNCHANGED <<manager_vars, worker_vars, stores, loop, sleep, broadphase, contacts, rowcache, stepper, ecs, s11n, motion, dirties, echo, pfor>>

DeltaNext ==
    \/ \E d \in Deltas(importing.graph) :
            \E side \in {"island_worker", "island_coordinator"} :
                on_island_delta_import(side, d)
    \/ on_island_delta_created_for_each

DeltaSpec == Init /\ [][DeltaNext]_vars

\* C11: while a delta is applied, on the worker or on the coordinator, no
\* manifold or constraint edge is inserted before the graph node of a body
\* the same delta created, and none while one of its bodies has no graph
\* node.
C11_NodesBeforeEdges == ~importing.early /\ ~importing.orphan

C11_Witness ==
    /\ importing.pc = Len(created_for_each_order(importing.side))
    /\ \E e \in EdgeIds :
        /\ importing.delta.type[e] = "contact_manifold"
        /\ has_edge(importing.graph, e)
        /\ importing.delta.created[importing.delta.edges[e][2]] = "kinematic"
        /\ importing.delta.edges[e][1] \in importing.graph.nodes
        /\ importing.delta.created[importing.delta.edges[e][1]] = "none"

(***************************************************************************)
(* The two registries, one handler at a time: refresh and read_messages    *)
(* run on the coordinator's thread, process_messages and the step on the   *)
(* thread that runs the worker's job.                                      *)
(***************************************************************************)
store_refresh(n, v) ==
    /\ Len(stores.to_worker) < MaxInFlight
    /\ stores' = [refresh_dirty_entities(stores, n, v) EXCEPT
                      !.thread = "coordinator", !.handler = "refresh"]
    /\ UNCHANGED <<manager_vars, worker_vars, importing, loop, sleep, broadphase, contacts, rowcache, stepper, ecs, s11n, motion, dirties, echo, pfor>>

store_read_messages ==
    /\ stores.to_coordinator # <<>>
    /\ stores' = [coordinator_on_island_delta(stores) EXCEPT
                      !.thread = "coordinator", !.handler = "on_island_delta"]
    /\ UNCHANGED <<manager_vars, worker_vars, importing, loop, sleep, broadphase, contacts, rowcache, stepper, ecs, s11n, motion, dirties, echo, pfor>>

store_process_messages ==
    /\ stores.to_worker # <<>>
    /\ stores' = [worker_on_island_delta(stores) EXCEPT
                      !.thread = "worker", !.handler = "on_island_delta"]
    /\ UNCHANGED <<manager_vars, worker_vars, importing, loop, sleep, broadphase, contacts, rowcache, stepper, ecs, s11n, motion, dirties, echo, pfor>>

\* A step of the worker: the solver moves a body, finish_step calls sync.
store_step(n, v) ==
    /\ Len(stores.to_coordinator) < MaxInFlight
    /\ stores' = [worker_sync([stores EXCEPT !.m_registry[n] = v]) EXCEPT
                      !.thread = "worker", !.handler = "sync"]
    /\ UNCHANGED <<manager_vars, worker_vars, importing, loop, sleep, broadphase, contacts, rowcache, stepper, ecs, s11n, motion, dirties, echo, pfor>>

StoreNext ==
    \/ \E n \in Shared : \E v \in Values : store_refresh(n, v)
    \/ store_read_messages
    \/ store_process_messages
    \/ \E n \in Shared : \E v \in Values : store_step(n, v)

StoreSpec == Init /\ [][StoreNext]_vars

\* C13: the coordinator's registry changes only in a handler that runs on
\* the coordinator's thread; a handler on the worker's thread changes the
\* worker's registry, appends to the worker's outgoing queue and takes from
\* its incoming queue, nothing else; and what a worker's step changed reaches
\* the coordinator's registry as the import of the delta at the head of that
\* worker's queue, in on_island_delta.
C13_Step ==
    /\ stores'.registry # stores.registry => stores'.thread = "coordinator"
    /\ stores'.thread = "worker" =>
            /\ stores'.registry = stores.registry
            /\ \/ stores'.to_worker = stores.to_worker
               \/ /\ stores.to_worker # <<>>
                  /\ stores'.to_worker = Tail(stores.to_worker)
    /\ (stores'.thread = "coordinator" /\ stores'.handler = "on_island_delta") =>
            /\ stores.to_coordinator # <<>>
            /\ stores'.registry = import_components(stores.registry,
                                                    Head(stores.to_coordinator))
            /\ stores'.m_registry = stores.m_registry
C13_OnlyCoordinatorWritesItsStore == [][C13_Step]_vars
C13_Witness ==
    /\ stores.thread = "coordinator" /\ stores.handler = "on_island_delta"
    /\ stores.registry = stores.m_registry
    /\ \E n \in Shared : stores.registry[n] # "x0"
    /\ stores.to_worker = <<>>

(***************************************************************************)
(* parallel_for, step by step.                                             *)
(***************************************************************************)
\* parallel_for up to loop->run(): the first steal() makes the loop of the
\* whole range, the first child job is dispatched.
parallel_for(first, last, step) ==
    /\ loop.phase = "idle"
    /\ first <= last
    /\ loop' = [loop EXCEPT !.phase = "running", !.m_first = first, !.m_last = last,
                            !.m_step = step,
                            !.m_loops = <<for_loop_range(first, last)>>,
                            !.m_counter = 1, !.job.pc = "queued"]
    /\ UNCHANGED <<manager_vars, worker_vars, importing, stores, sleep, broadphase, contacts, rowcache, stepper, ecs, s11n, motion, dirties, echo, pfor>>

\* ctx->m_loop_pool.wait() returns and parallel_for with it.
parallel_for_wait ==
    /\ loop.phase = "running" /\ ~loop.fault
    /\ loop.m_loops[1].pc = "done"
    /\ mutex_counter_wait(loop)
    /\ loop' = [loop EXCEPT !.phase = "returned"]
    /\ UNCHANGED <<manager_vars, worker_vars, importing, stores, sleep, broadphase, contacts, rowcache, stepper, ecs, s11n, motion, dirties, echo, pfor>>

\* parallel_for_job_func: a step of steal() in the child job.
parallel_for_job_func ==
    /\ ~loop.fault
    /\ loop.job.pc # "none"
    /\ loop' = CASE loop.job.pc = "queued" -> steal_load(loop)
                 [] loop.job.pc = "increment" -> steal_increment(loop)
                 [] loop.job.pc = "store" -> steal_store(loop)
                 [] loop.job.pc = "reload" -> steal_emplace(loop)
    /\ UNCHANGED <<manager_vars, worker_vars, importing, stores, sleep, broadphase, contacts, rowcache, stepper, ecs, s11n, motion, dirties, echo, pfor>>

\* for_loop_range::run of loop k: a step of it.
for_loop_range_run(k) ==
    /\ ~loop.fault
    /\ k \in DOMAIN loop.m_loops
    /\ loop.m_loops[k].pc # "done"
    /\ loop' = CASE loop.m_loops[k].pc = "load" -> run_load(loop, k)
                 [] loop.m_loops[k].pc = "check" -> run_check(loop, k)
                 [] loop.m_loops[k].pc = "call" -> run_call(loop, k)
    /\ UNCHANGED <<manager_vars, worker_vars, importing, stores, sleep, broadphase, contacts, rowcache, stepper, ecs, s11n, motion, dirties, echo, pfor>>

LoopNext ==
    \/ \E first \in 0..1 : \E last \in 0..MaxLast : \E step \in 1..MaxStep :
          parallel_for(first, last, step)
    \/ parallel_for_wait
    \/ parallel_for_job_func
    \/ \E k \in 1..MaxLast : for_loop_range_run(k)

LoopSpec == Init /\ [][LoopNext]_vars

in_range(i) ==
    /\ loop.m_first <= i /\ i < loop.m_last
    /\ (i - loop.m_first) % loop.m_step = 0

\* C14: the loop function is invoked at most once for an index, for no
\* index other than first + k*step below last, and when parallel_for has
\* returned it has been invoked once for each of these.
C14_EachIndexExactlyOnce ==
    ~loop.fault =>
        \A i \in Indexes :
            /\ loop.calls[i] <= 1
            /\ loop.calls[i] > 0 => in_range(i)
            /\ (loop.phase = "returned" /\ in_range(i)) => loop.calls[i] = 1

\* C15: when parallel_for has returned, no invocation of the loop function
\* is in progress or about to start, none has started since, and no loop
\* of the pool has an index left to run.
C15_ReturnsAfterEverySubLoop ==
    loop.phase = "returned" =>
        /\ ~loop.late
        /\ \A k \in DOMAIN loop.m_loops :
               /\ loop.m_loops[k].pc # "call"
               /\ loop.m_loops[k].pc = "load" =>
                      loop.m_loops[k].m_current >= loop.m_loops[k].m_last
               /\ loop.m_loops[k].pc = "check" =>
                      loop.m_loops[k].i >= loop.m_loops[k].m_last
C15_EverySubLoopDone ==
    loop.phase = "returned" =>
        /\ loop.job.pc \in {"none", "queued"}
        /\ \A k \in DOMAIN loop.m_loops : loop.m_loops[k].pc = "done"
C15_Witness ==
    /\ loop.phase = "returned"
    /\ Len(loop.m_loops) >= 3
    /\ \E k \in DOMAIN loop.m_loops : loop.m_loops[k].m_current > loop.m_loops[k].m_first + 1
    /\ loop.m_loops[1].m_last < loop.m_last

(***************************************************************************)
(* The island, update by update.                                           *)
(***************************************************************************)
OTHERS_SLEEP == <<manager_vars, worker_vars, importing, stores, loop, broadphase, contacts, rowcache, stepper, ecs, s11n, motion, dirties, echo, pfor>>

\* The simulation starts with the island under one of the routines.
sleep_attach(impl) ==
    /\ sleep.impl = "none"
    /\ sleep' = [sleep EXCEPT !.impl = impl]
    /\ UNCHANGED OTHERS_SLEEP

\* A step of the solver.  The worker runs none while its island sleeps.
sleep_solver_update(solved) ==
    /\ sleep.impl # "none"
    /\ sleep.impl = "island_manager" \/ ~is_sleeping(sleep)
    /\ sleep' = solver_update(sleep, solved)
    /\ UNCHANGED OTHERS_SLEEP

\* The history of an update that took the island from S to T.
sampled(S, T) ==
    LET marked == is_sleeping(T) /\ ~is_sleeping(S)
    IN [T EXCEPT
           !.since = IF fast(S) # {} /\ ~is_sleeping(S) THEN S.now ELSE @,
           !.marked_after = IF marked
                            THEN (IF fast(S) # {} THEN 0 ELSE S.now - S.since)
                            ELSE @,
           !.marked_disabled = @ \/ (marked /\ S.R.sleeping_disabled # {})]

\* The update that follows: the routine samples the speeds.
sleep_update ==
    /\ sleep.impl # "none"
    /\ sleep.now < MaxSteps
    /\ sleep' = sampled([sleep EXCEPT !.now = @ + 1],
                        put_island_to_sleep([sleep EXCEPT !.now = @ + 1]))
    /\ UNCHANGED OTHERS_SLEEP

\* The island is woken up.
sleep_wake_up ==
    /\ sleep.impl # "none"
    /\ is_sleeping(sleep)
    /\ sleep' = [wake_up(sleep) EXCEPT !.since = sleep.now, !.marked_after = NoTime]
    /\ UNCHANGED OTHERS_SLEEP

\* The user tags a body sleeping_disabled or takes the tag away;
\* island_util knows no such tag.
sleep_disable(n, on) ==
    /\ sleep.impl \in {"island_manager", "island_worker"}
    /\ sleep' = [sleep EXCEPT !.R.sleeping_disabled = IF on THEN @ \cup {n} ELSE @ \ {n}]
    /\ UNCHANGED OTHERS_SLEEP

SleepNext ==
    \/ \E impl \in Sleepers : sleep_attach(impl)
    \/ \E solved \in [Bodies -> Speeds] : sleep_solver_update(solved)
    \/ sleep_update
    \/ sleep_wake_up
    \/ \E n \in Bodies : \E on \in BOOLEAN : sleep_disable(n, on)

SleepSpec == Init /\ [][SleepNext]_vars

\* C16: an island is marked sleeping only when more than
\* island_time_to_sleep has passed since the last update that found a member
\* above a speed threshold (or since the island was woken or made), every
\* update in between having found all members at or below the thresholds.
C16_SleepsOnlyAfterQuietInterval ==
    is_sleeping(sleep) => sleep.marked_after > island_time_to_sleep
C16_IslandManagerAndWorker ==
    (is_sleeping(sleep) /\ sleep.impl # "island_util") =>
        sleep.marked_after > island_time_to_sleep

\* C17: every body of a sleeping island has zero velocity.
C17_SleepingBodiesStayAtRest ==
    is_sleeping(sleep) => \A n \in Bodies : sleep.linvel[n] = "zero"

touched_while_asleep ==
    {n \in registry.sleeping_nodes :
        \/ registry.node_island[n] \in manager.islands_to_wake_up
        \/ \E e \in manager.new_graph_edges \cap registry.edge_valid :
              graph.edges[e] # NoEdge /\ n \in {graph.edges[e][1], graph.edges[e][2]}}

\* C18: an update of the island manager leaves no sleeping tag on a node of
\* a sleeping island that a change since the update before touched (an edge
\* inserted at the node, a member of its island destroyed), nor on the island
\* the node is in after the update.
C18_Step ==
    (batch' = 0 /\ ~registry.fault /\ ~registry'.fault) =>
        \A n \in touched_while_asleep :
            valid_node(registry', n) =>
                /\ n \notin registry'.sleeping_nodes
                /\ registry'.node_island[n] \notin registry'.sleeping_islands
C18_ModificationWakesIsland == [][C18_Step]_vars
C18_Witness ==
    /\ touched_while_asleep # {}
    /\ manager.new_graph_edges # {}

(***************************************************************************)
(* The broadphase, step by step.                                           *)
(***************************************************************************)
OTHERS_BROADPHASE == <<manager_vars, worker_vars, importing, stores, loop, sleep, contacts, rowcache, stepper, ecs, s11n, motion, dirties, echo, pfor>>

\* make_rigidbody with a shape: the collision_filter gets the group and the
\* mask of the definition; a dynamic body gets an island of its own.
broadphase_make_rigidbody(n, kind, group, mask) ==
    /\ broadphase.kind[n] = "none"
    /\ \A m \in Bodies : m < n => broadphase.kind[m] # "none"
    /\ broadphase' = [broadphase EXCEPT
            !.kind[n] = kind,
            !.filter[n] = [group |-> group, mask |-> mask],
            !.container[n] = IF kind = "dynamic" THEN {n} ELSE {}]
    /\ UNCHANGED OTHERS_BROADPHASE

\* broadphase_main::update with the pairs of bodies whose AABBs intersect.
broadphase_update(intersecting, first) ==
    /\ \A p \in intersecting : \A n \in p : broadphase.kind[n] # "none"
    /\ Len(broadphase.manifolds) + 2 * Cardinality(intersecting) <= MaxManifolds
    /\ broadphase' = intersect_islands(broadphase, intersecting, first)
    /\ UNCHANGED OTHERS_BROADPHASE

\* The coordinator inserts the new manifolds as edges: the islands of two
\* dynamic bodies merge, a static body joins the island of the other body.
broadphase_insert_edges ==
    /\ broadphase.m_manifold_map # broadphase.merged
    /\ broadphase' = [broadphase EXCEPT
            !.merged = broadphase.m_manifold_map,
            !.container = [n \in Bodies |->
                IF \E k \in DOMAIN broadphase.manifolds :
                       n \in {broadphase.manifolds[k][1], broadphase.manifolds[k][2]}
                THEN UNION {broadphase.container[m] : m \in Bodies}
                ELSE @[n]]]
    /\ UNCHANGED OTHERS_BROADPHASE

\* The narrowphase destroys a manifold whose points all went beyond the
\* separation threshold: the map forgets the pair and the island splits.
broadphase_destroy_manifold(k) ==
    /\ k \in DOMAIN broadphase.manifolds
    /\ LET gone == unordered(broadphase.manifolds[k][1], broadphase.manifolds[k][2])
       IN broadphase' = [broadphase EXCEPT
            !.manifolds = [i \in 1 .. (Len(@) - 1) |-> IF i < k THEN @[i] ELSE @[i + 1]],
            !.m_manifold_map = @ \ {gone}, !.merged = @ \ {gone},
            !.skipped = {},
            !.container = [n \in Bodies |->
                IF broadphase.kind[n] = "dynamic" THEN {n} ELSE {}]]
    /\ UNCHANGED OTHERS_BROADPHASE

BroadphaseNext ==
    \/ \E n \in Bodies, kind \in {"dynamic", "static"}, group, mask \in Masks :
          broadphase_make_rigidbody(n, kind, group, mask)
    \/ \E intersecting \in SUBSET Pairs, first \in Bodies :
          broadphase_update(intersecting, first)
    \/ broadphase_insert_edges
    \/ \E k \in 1 .. MaxManifolds : broadphase_destroy_manifold(k)

BroadphaseSpec == Init /\ [][BroadphaseNext]_vars

\* The filters of two bodies reject each other.
rejected(e0, e1) ==
    \/ bit_and(broadphase.filter[e0].group, broadphase.filter[e1].mask, FilterBits) = 0
    \/ bit_and(broadphase.filter[e1].group, broadphase.filter[e0].mask, FilterBits) = 0

\* C20: no manifold exists between two bodies whose collision filters
\* reject each other: (groupA & maskB) is zero or (groupB & maskA) is zero.
C20_NoManifoldForRejectedPair ==
    \A k \in DOMAIN broadphase.manifolds :
        ~rejected(broadphase.manifolds[k][1], broadphase.manifolds[k][2])
\* Two bodies whose filters accept each other have a manifold, and each
\* filter has a bit the other lacks.
C20_Witness ==
    /\ broadphase.manifolds # <<>>
    /\ \E n \in Bodies : broadphase.filter[n].group # broadphase.filter[n].mask
    /\ \E n \in Bodies : broadphase.kind[n] = "static"

\* C21: no two manifolds are between the same two bodies, in either order
\* of body0 and body1.
C21_OneManifoldPerUnorderedPair ==
    \A i, j \in DOMAIN broadphase.manifolds :
        i # j => {broadphase.manifolds[i][1], broadphase.manifolds[i][2]}
                 # {broadphase.manifolds[j][1], broadphase.manifolds[j][2]}
\* An update met the pair (b, a) and passed it over because of the manifold
\* made for (a, b).
C21_Witness ==
    \E k \in DOMAIN broadphase.manifolds :
        <<broadphase.manifolds[k][2], broadphase.manifolds[k][1]>> \in broadphase.skipped

(***************************************************************************)
(* The manifold, update by update.                                         *)
(***************************************************************************)
OTHERS_CONTACTS == <<manager_vars, worker_vars, importing, stores, loop, sleep, broadphase, rowcache, stepper, ecs, s11n, motion, dirties, echo, pfor>>

ResultPoints == [nearest : 0 .. max_contacts, insert : 0 .. max_contacts]
Results == UNION {[1 .. n -> ResultPoints] : n \in 0 .. MaxResult}
Geometries(num_points) == [1 .. num_points -> [nearest : 0 .. MaxResult, separating : BOOLEAN]]
Choices(num_result) == [1 .. num_result -> [similar : BOOLEAN, c : 0 .. max_contacts]]

\* The build has one of the two narrowphases.
contacts_attach(impl) ==
    /\ contacts.impl = "none"
    /\ contacts' = [contacts EXCEPT !.impl = impl]
    /\ UNCHANGED OTHERS_CONTACTS

\* narrowphase::update_contact_manifold of narrowphase.cpp.
contacts_update_contact_manifold(intersects, result, separating) ==
    /\ contacts.impl = "narrowphase"
    /\ intersects \/ result = <<>>
    /\ \A k \in DOMAIN result : result[k].nearest = 0 \/ result[k].insert = 0
    /\ separating \subseteq 1 .. (Len(contacts.point) + Len(result))
    /\ contacts' = [contacts EXCEPT
            !.point = update_contact_manifold(@, intersects, result, separating),
            !.full_insert = @ \/ (/\ Len(contacts.point) = max_contacts
                                  /\ \E k \in DOMAIN result : result[k].nearest = 0)]
    /\ \A k \in DOMAIN contacts'.point : contacts'.point[k] <= MaxLifetime
    /\ UNCHANGED OTHERS_CONTACTS

\* process_collision of collision_util.hpp with a result of num_result points.
contacts_process_collision(num_result, geometry, choices) ==
    /\ contacts.impl = "collision_util"
    /\ contacts' = [contacts EXCEPT
            !.point = collision_util_process_collision(@, num_result, geometry, choices),
            !.full_insert = @ \/ (/\ Len(contacts.point) = max_contacts
                                  /\ num_result > 0
                                  /\ \A i \in DOMAIN geometry :
                                        geometry[i] = [nearest |-> 0, separating |-> FALSE])]
    /\ \A k \in DOMAIN contacts'.point : contacts'.point[k] <= MaxLifetime
    /\ UNCHANGED OTHERS_CONTACTS

ContactsNext ==
    \/ \E impl \in Narrowphases : contacts_attach(impl)
    \/ \E intersects \in BOOLEAN, result \in Results, separating \in SUBSET (1 .. max_contacts) :
          contacts_update_contact_manifold(intersects, result, separating)
    \/ \E num_result \in 0 .. MaxResult :
          \E geometry \in Geometries(Len(contacts.point)), choices \in Choices(num_result) :
              contacts_process_collision(num_result, geometry, choices)

ContactsSpec == Init /\ [][ContactsNext]_vars

\* C22: every manifold holds between 0 and 4 contact points.
C22_AtMostFourPoints == Len(contacts.point) \in 0 .. max_contacts
\* A full manifold met a result point that merged with none of its points.
C22_Witness == contacts.full_insert /\ Len(contacts.point) = max_contacts

(***************************************************************************)
(* The solver, step by step.                                               *)
(***************************************************************************)
OTHERS_ROWS == <<manager_vars, worker_vars, importing, stores, loop, sleep, broadphase, contacts, stepper, ecs, s11n, motion, dirties, echo, pfor>>

\* Between steps the narrowphase leaves the manifold with some contact
\* points and the user makes or destroys a spin constraint.
rows_contacts(point, spin_constraint) ==
    /\ rowcache.phase = "idle"
    /\ rowcache' = [rowcache EXCEPT !.point = point, !.spin_constraint = spin_constraint]
    /\ UNCHANGED OTHERS_ROWS

\* The step starts: the cache is cleared and prepare_constraints runs for
\* each type of constraint.
rows_prepare_constraints ==
    /\ rowcache.phase = "idle"
    /\ rowcache' = [prepare_spin_constraint(prepare_contact_constraint(
                        [rowcache EXCEPT !.rows = <<>>, !.delta = 0, !.iteration = 0], 1))
                    EXCEPT !.phase = "solve"]
    /\ UNCHANGED OTHERS_ROWS

\* One iteration over all rows.
rows_iterate(impulses) ==
    /\ rowcache.phase = "solve"
    /\ rowcache.iteration < MaxIterations
    /\ DOMAIN impulses = DOMAIN rowcache.rows
    /\ rowcache' = iterate(rowcache, impulses)
    /\ UNCHANGED OTHERS_ROWS

\* The step ends: the impulse of the normal row of each point is kept for
\* the next step and the velocity deltas are applied and zeroed.
rows_finish ==
    /\ rowcache.phase = "solve"
    /\ rowcache' = [rowcache EXCEPT
            !.phase = "idle", !.rows = <<>>, !.iteration = 0, !.delta = 0,
            !.point = [k \in DOMAIN @ |->
                [@[k] EXCEPT !.impulse =
                    rowcache.rows[CHOOSE r \in DOMAIN rowcache.rows :
                        /\ rowcache.rows[r].type = "normal"
                        /\ Cardinality({q \in 1 .. r : rowcache.rows[q].type = "normal"}) = k
                    ].impulse]]]
    /\ UNCHANGED OTHERS_ROWS

RowsNext ==
    \/ \E n \in 0 .. MaxPoints : \E point \in [1 .. n -> ContactPoints] :
          \E spin_constraint \in BOOLEAN : rows_contacts(point, spin_constraint)
    \/ rows_prepare_constraints
    \/ \E all \in 0 .. 1 :
          rows_iterate([k \in DOMAIN rowcache.rows |-> all])
    \/ rows_finish

RowsSpec == Init /\ [][RowsNext]_vars

\* The rows that the contact points and the spin constraint ask for.
rows_asked ==
    LET of(cp) == 3 + (IF cp.roll_friction THEN 2 ELSE 0) + (IF cp.spin_friction THEN 1 ELSE 0)
        RECURSIVE sum(_)
        sum(k) == IF k = 0 THEN 0 ELSE of(rowcache.point[k]) + sum(k - 1)
    IN sum(Len(rowcache.point)) + (IF rowcache.spin_constraint THEN 1 ELSE 0)

OTHERS_STEPPER == <<manager_vars, worker_vars, importing, stores, loop, sleep, broadphase, contacts, rowcache, ecs, s11n, motion, dirties, echo, pfor>>

\* attach with a fixed_dt in the configuration; the worker of an island is
\* made with a copy of the settings and the timestamp of the coordinator.
stepper_attach(fixed_dt) ==
    /\ ~stepper.attached
    /\ stepper' = [stepper EXCEPT !.attached = TRUE,
                                  !.settings.fixed_dt = fixed_dt,
                                  !.w.settings.fixed_dt = fixed_dt]
    /\ UNCHANGED OTHERS_STEPPER

\* Time passes: the worker is not run for d ticks.
stepper_delay(d) ==
    /\ stepper.attached
    /\ stepper.time + d <= MaxClock
    /\ stepper' = [stepper EXCEPT !.time = @ + d]
    /\ UNCHANGED OTHERS_STEPPER

\* island_worker_context::send, as far as the queue has room.
stepper_send(S, msg) ==
    /\ Len(stepper.q) < MaxPending
    /\ stepper' = [S EXCEPT !.q = Append(@, msg)]

\* set_paused: the setting, island_coordinator::set_paused.
stepper_set_paused(paused) ==
    /\ stepper.attached
    /\ stepper_send([stepper EXCEPT !.settings.paused = paused],
                    [type |-> "set_paused", paused |-> paused])
    /\ UNCHANGED OTHERS_STEPPER

\* set_fixed_dt: the setting, island_coordinator::settings_changed.
stepper_set_fixed_dt(dt) ==
    /\ stepper.attached
    /\ LET S == [stepper EXCEPT !.settings.fixed_dt = dt]
       IN stepper_send(S, [type |-> "set_settings", settings |-> S.settings])
    /\ UNCHANGED OTHERS_STEPPER

\* step_simulation of a paused simulation, island_coordinator::step_simulation:
\* a sleeping island gets no message.
stepper_step_simulation ==
    /\ stepper.attached
    /\ stepper.settings.paused
    /\ stepper.h.calls < MaxCalls
    /\ IF stepper.w.sleeping THEN Len(stepper.q) < MaxPending /\ UNCHANGED stepper
       ELSE stepper_send([stepper EXCEPT !.h.calls = @ + 1], [type |-> "step_simulation"])
    /\ UNCHANGED OTHERS_STEPPER

\* wake_up_island sent by the coordinator.
stepper_wake_up_island ==
    /\ stepper.attached
    /\ stepper.w.sleeping
    /\ stepper_send(stepper, [type |-> "wake_up_island"])
    /\ UNCHANGED OTHERS_STEPPER

\* update of the worker in the state step: process_messages, should_step
\* and the step when it is due.
stepper_update(sleepy) ==
    /\ stepper.attached
    /\ LET m == process_messages_at(stepper.w, stepper.q, stepper.time)
           a == should_step_at(m, stepper.time)
           after == finish_step_at(a.w, sleepy)
       IN IF a.ret
          THEN stepper' = [stepper EXCEPT
                              !.q = <<>>, !.w = after,
                              !.h = step_history(@, a.w, after, m.m_state = "begin_step")]
          ELSE ~sleepy /\ stepper' = [stepper EXCEPT !.q = <<>>, !.w = a.w]
    /\ UNCHANGED OTHERS_STEPPER

\* The worker under delays of any length, with the simulation paused,
\* stepped and resumed.
StepperNext ==
    \/ \E fixed_dt \in 1 .. MaxFixedDt : stepper_attach(fixed_dt)
    \/ \E d \in 1 .. MaxClock : stepper_delay(d)
    \/ \E paused \in BOOLEAN : stepper_set_paused(paused)
    \/ stepper_step_simulation
    \/ \E sleepy \in BOOLEAN : stepper_update(sleepy)

StepperSpec == Init /\ [][StepperNext]_vars

\* The configuration mutators and the worker, at one time of the clock.
ConfigNext ==
    \/ \E fixed_dt \in 1 .. MaxFixedDt : stepper_attach(fixed_dt)
    \/ \E paused \in BOOLEAN : stepper_set_paused(paused)
    \/ \E dt \in 1 .. MaxFixedDt : stepper_set_fixed_dt(dt)
    \/ stepper_step_simulation
    \/ stepper_wake_up_island
    \/ \E sleepy \in BOOLEAN : stepper_update(sleepy)

ConfigSpec == Init /\ [][ConfigNext]_vars

\* C24: after a step of the worker the timestamp of the island is behind
\* the time the step started by at most ten fixed steps plus the remainder.
C24_LagIsCapped ==
    stepper.h.stepped => stepper.h.capped
\* A step after a long delay, with a remainder: the lag is at the limit.
C24_Witness ==
    stepper.h.stepped /\ stepper.h.at_limit

\* C25: once the worker has handled its messages it has made one step for
\* each call of step_simulation that reached its island.
C25_OneStepPerCall ==
    (stepper.attached /\ stepper.q = <<>>) => stepper.h.steps = stepper.h.calls

\* C26: once the worker has handled its messages its settings are those of
\* the coordinator.
C26_WorkerHoldsSettings ==
    (stepper.attached /\ stepper.q = <<>>) => stepper.w.settings = stepper.settings

(***************************************************************************)
(* A registry from attach to detach.                                       *)
(***************************************************************************)
OTHERS_ECS == <<manager_vars, worker_vars, importing, stores, loop, sleep, broadphase, contacts, rowcache, stepper, s11n, motion, dirties, echo, pfor>>

ecs_attach ==
    /\ ~ecs.attached /\ ~ecs.detached
    /\ ecs' = [ecs EXCEPT !.attached = TRUE]
    /\ UNCHANGED OTHERS_ECS

ecs_make_rigidbody(entity, def) ==
    /\ ecs.attached
    /\ ecs.comp[entity] = {}
    /\ ecs' = make_rigidbody_components(ecs, entity, def)
    /\ UNCHANGED OTHERS_ECS

\* A constraint between the two rigid bodies.
ecs_make_constraint ==
    /\ ecs.attached
    /\ \A e \in RigidBodies : "rigidbody_tag" \in ecs.comp[e]
    /\ ecs.comp[ConstraintEntity] = {}
    /\ ecs' = make_constraint_components(ecs, ConstraintEntity)
    /\ UNCHANGED OTHERS_ECS

\* A step of the simulation: the dirty components are sent and cleared, the
\* nodes get an island and the broadphase makes a manifold for two bodies
\* with a shape of which one is dynamic, when they overlap.
ecs_update(overlap, restitution) ==
    /\ ecs.attached
    /\ \E e \in RigidBodies : "rigidbody_tag" \in ecs.comp[e]
    /\ LET sent == registry_clear(ecs, {"dirty"})
           isle == ecs_create_island(sent, IslandEntity)
           collide == /\ overlap
                      /\ \A e \in RigidBodies : "AABB" \in ecs.comp[e]
                      /\ \E e \in RigidBodies : "dynamic_tag" \in ecs.comp[e]
       IN ecs' = IF collide /\ ecs.comp[ManifoldEntity] = {}
                 THEN ecs_make_contact_manifold(isle, ManifoldEntity, restitution)
                 ELSE isle
    /\ UNCHANGED OTHERS_ECS

ecs_detach ==
    /\ ecs.attached
    /\ ecs' = detach(ecs)
    /\ UNCHANGED OTHERS_ECS

EcsNext ==
    \/ ecs_attach
    \/ \E entity \in RigidBodies : \E def \in rigidbody_def : ecs_make_rigidbody(entity, def)
    \/ ecs_make_constraint
    \/ \E overlap, restitution \in BOOLEAN : ecs_update(overlap, restitution)
    \/ ecs_detach

EcsSpec == Init /\ [][EcsNext]_vars

\* C27: after detach no entity of the registry has a component that the
\* engine added.
C27_DetachLeavesNoComponent ==
    ecs.detached => \A e \in Entities : ecs.comp[e] = {}

(***************************************************************************)
(* A vector of bool written to an archive and read back.                   *)
(***************************************************************************)
OTHERS_S11N == <<manager_vars, worker_vars, importing, stores, loop, sleep, broadphase, contacts, rowcache, stepper, ecs, motion, dirties, echo, pfor>>

\* The vectors: of every length, all false or all true but for two places.
BoolVectors ==
    {[k \in 1 .. n |-> IF k \in {a, b} THEN ~fill ELSE fill] :
        n \in 0 .. MaxBits, a \in 0 .. MaxBits, b \in 0 .. MaxBits, fill \in BOOLEAN}

s11n_write(vector) ==
    /\ s11n.state = "none"
    /\ s11n' = [s11n EXCEPT !.state = "written", !.vector = vector,
                            !.archive = serialize_output(vector)]
    /\ UNCHANGED OTHERS_S11N

s11n_read ==
    /\ s11n.state = "written"
    /\ s11n' = [s11n EXCEPT !.state = "read", !.read = serialize_input(s11n.archive)]
    /\ UNCHANGED OTHERS_S11N

S11nNext ==
    \/ \E vector \in BoolVectors : s11n_write(vector)
    \/ s11n_read

S11nSpec == Init /\ [][S11nNext]_vars

\* C28: a vector of bool read back from the archive it was written to is
\* the vector that was written.
C28_BoolVectorRoundTrip ==
    s11n.state = "read" => s11n.read = s11n.vector
\* A vector longer than one set, not a multiple of 32 long, with the last
\* bit of the first set and the only bit of the second set true.
C28_Witness ==
    /\ s11n.state = "read"
    /\ Len(s11n.vector) = set_num_bits + 1
    /\ s11n.vector[set_num_bits] /\ s11n.vector[set_num_bits + 1]
    /\ Len(s11n.archive) = 3

(***************************************************************************)
(* Entities are given components and integrate_linacc is called n times.   *)
(***************************************************************************)
OTHERS_MOTION == <<manager_vars, worker_vars, importing, stores, loop, sleep, broadphase, contacts, rowcache, stepper, ecs, s11n, dirties, echo, pfor>>

\* registry.assign of the components of an entity, before the first call.
motion_assign(e, given) ==
    /\ motion.n = 0
    /\ motion.ent[e] = no_mover
    /\ given.has_linvel \/ given.linvel = 0
    /\ given.has_linacc \/ given.linacc = 0
    /\ motion' = [motion EXCEPT !.ent[e] = given, !.initial[e] = given]
    /\ UNCHANGED OTHERS_MOTION

\* A call of integrate_linacc; every call of a run has the same dt.
motion_integrate_linacc(dt) ==
    /\ motion.n < MaxIntegrations
    /\ motion.n = 0 \/ dt = motion.dt
    /\ motion' = [motion EXCEPT !.ent = integrate_linacc(@, dt), !.dt = dt, !.n = @ + 1]
    /\ UNCHANGED OTHERS_MOTION

MotionNext ==
    \/ \E e \in Movers : \E given \in MoverComponents : motion_assign(e, given)
    \/ \E dt \in 1 .. MaxFixedDt : motion_integrate_linacc(dt)

MotionSpec == Init /\ [][MotionNext]_vars

\* C29: after n calls an entity with a linvel, a linacc and the dynamic_tag
\* has its initial velocity plus n * dt * acceleration, and every other
\* entity has the components it had.
C29_VelocityAfterCalls ==
    \A e \in Movers :
        LET was == motion.initial[e]
        IN IF was.has_linvel /\ was.has_linacc /\ was.dynamic_tag
           THEN motion.ent[e] =
                    [was EXCEPT !.linvel = @ + motion.n * motion.dt * was.linacc]
           ELSE motion.ent[e] = was
\* Three calls with a dynamic entity that accelerates and an entity with a
\* velocity and an acceleration that is not dynamic.
C29_Witness ==
    /\ motion.n = MaxIntegrations
    /\ \E e \in Movers : /\ e \in integrate_linacc_view(motion.initial)
                          /\ motion.initial[e].linacc # 0
    /\ \E e \in Movers : /\ e \in untagged_view(motion.initial)
                          /\ ~motion.initial[e].dynamic_tag
                          /\ motion.initial[e].linacc # 0

(***************************************************************************)
(* Entities are put in islands, marked dirty and refreshed.                *)
(***************************************************************************)
OTHERS_DIRTY == <<manager_vars, worker_vars, importing, stores, loop, sleep, broadphase, contacts, rowcache, stepper, ecs, s11n, motion, echo, pfor>>

\* insert_to_island: the island of the procedural entity and the islands
\* of the other.
dirty_insert_to_island(island_entity, islands) ==
    /\ dirties.island_resident = "none" /\ dirties.multi_island_resident = {}
    /\ islands # {}
    /\ dirties' = [dirties EXCEPT !.island_resident = island_entity,
                                  !.multi_island_resident = islands]
    /\ UNCHANGED OTHERS_DIRTY

\* The user or the engine marks components of an entity dirty and names
\* none or some of the islands the entity resides in.
dirty_mark(entity, kind, islands) ==
    /\ dirties.island_resident # "none"
    /\ islands \subseteq (IF entity = "procedural" THEN {dirties.island_resident}
                          ELSE dirties.multi_island_resident)
    /\ \A i \in DirtyIslands : dirties.m_delta_builder[i] = {}
    /\ dirties' = [dirties EXCEPT !.dirty[entity] = dirty_cud(@, kind, islands)]
    /\ UNCHANGED OTHERS_DIRTY

\* island_coordinator::update: refresh_dirty_entities.
dirty_refresh ==
    /\ \E e \in DirtyEntities : dirties.dirty[e].has
    /\ dirties' = refresh_dirty_view(dirties)
    /\ UNCHANGED OTHERS_DIRTY

\* sync: the deltas of the builders are sent and the builders are empty.
dirty_sync ==
    /\ \E i \in DirtyIslands : dirties.m_delta_builder[i] # {}
    /\ dirties' = [dirties EXCEPT !.m_delta_builder = [i \in DirtyIslands |-> {}]]
    /\ UNCHANGED OTHERS_DIRTY

DirtyNext ==
    \/ \E island_entity \in DirtyIslands : \E islands \in SUBSET DirtyIslands :
          dirty_insert_to_island(island_entity, islands)
    \/ \E entity \in DirtyEntities : \E kind \in DirtyKinds :
          \E islands \in SUBSET DirtyIslands : dirty_mark(entity, kind, islands)
    \/ dirty_refresh
    \/ dirty_sync

DirtySpec == Init /\ [][DirtyNext]_vars

\* C30: what an island is sent of an entity whose dirty component names
\* islands is sent to a named island only.
C30_OnlyNamedIslands ==
    \A i \in DirtyIslands : \A sent \in dirties.m_delta_builder[i] :
        sent.named # {} => i \in sent.named


(***************************************************************************)
(* Creations and destructions travel between a worker and the coordinator. *)
(* The entity map is the identity.  A record of a builder carries, beside  *)
(* the entity and what happened to it, the reason of the call and the step *)
(* of the worker, which the program does not store.                        *)
(***************************************************************************)
OTHERS_ECHO == <<manager_vars, worker_vars, importing, stores, loop, sleep, broadphase, contacts, rowcache, stepper, ecs, s11n, motion, dirties, pfor>>

\* island_delta_builder: created(entity) and destroyed(entity).
echo_record(entity, op, cause, steps) ==
    [entity |-> entity, op |-> op, cause |-> cause, step |-> steps]

\* The manifold of a contact point, and the points of a manifold that are
\* valid in a registry.
manifold_of(point) == IF point = "p1" THEN "manifold" ELSE "contact"
manifold_points(valid, entity) ==
    {p \in EchoPoints \cap valid : manifold_of(p) = entity}

\* island_worker::on_destroy_contact_point.
worker_on_destroy_contact_point(E, entity, in_import, cause) ==
    IF ~in_import /\ ~E.m_splitting
    THEN [E EXCEPT !.m_delta_builder =
              Append(@, echo_record(entity, "destroyed", cause, E.steps))]
    ELSE E

\* An on_destroy_graph_node that does not look at m_importing_delta and
\* m_splitting.
report_graph_node_always(E, entity, in_import, cause) ==
    [E EXCEPT !.m_delta_builder =
        Append(@, echo_record(entity, "destroyed", cause, E.steps))]
\* island_worker::on_destroy_graph_node.
worker_on_destroy_graph_node(E, entity, in_import, cause) ==
    IF ~in_import /\ ~E.m_splitting
    THEN [E EXCEPT !.m_delta_builder =
              Append(@, echo_record(entity, "destroyed", cause, E.steps))]
    ELSE E

\* island_worker::on_destroy_graph_edge.
worker_on_destroy_graph_edge(E, entity, in_import, cause) ==
    [(IF ~in_import /\ ~E.m_splitting
      THEN [E EXCEPT !.m_delta_builder =
                Append(@, echo_record(entity, "destroyed", cause, E.steps))]
      ELSE E) EXCEPT !.m_topology_changed = TRUE]

RECURSIVE worker_destroy_points(_, _, _, _)
\* The loop of island_worker::on_destroy_contact_manifold over the points
\* of the manifold: registry.destroy(contact_entity), which runs
\* on_destroy_contact_point, and destroyed(contact_entity).
worker_destroy_points(E, points, in_import, cause) ==
    IF points = {} THEN E
    ELSE LET contact_entity == CHOOSE p \in points : TRUE
             gone == IF ~in_import
                     THEN [worker_on_destroy_contact_point(E, contact_entity, in_import, cause)
                              EXCEPT !.m_registry = @ \ {contact_entity},
                                     !.dirty = @ \ {contact_entity}]
                     ELSE E
             told == IF ~in_import /\ ~E.m_splitting
                     THEN [gone EXCEPT !.m_delta_builder =
                              Append(@, echo_record(contact_entity, "destroyed", cause, E.steps))]
                     ELSE gone
         IN worker_destroy_points(told, points \ {contact_entity}, in_import, cause)

\* island_worker::on_destroy_contact_manifold.
worker_on_destroy_contact_manifold(E, entity, in_import, cause) ==
    worker_destroy_points(
        IF ~in_import /\ ~E.m_splitting
        THEN [E EXCEPT !.m_delta_builder =
                 Append(@, echo_record(entity, "destroyed", cause, E.steps))]
        ELSE E,
        manifold_points(E.m_registry, entity), in_import, cause)

\* m_registry.destroy(entity) in the worker: the handlers connected in
\* island_worker::init run, then the entity is gone.
worker_destroy(E, entity, in_import, cause) ==
    IF entity \notin E.m_registry THEN E
    ELSE LET handled ==
                 IF entity \in EchoNodes
                 THEN worker_on_destroy_graph_node(E, entity, in_import, cause)
                 ELSE IF entity \in EchoEdges
                 THEN worker_on_destroy_contact_manifold(
                          worker_on_destroy_graph_edge(E, entity, in_import, cause),
                          entity, in_import, cause)
                 ELSE worker_on_destroy_contact_point(E, entity, in_import, cause)
         IN [handled EXCEPT !.m_registry = @ \ {entity}, !.dirty = @ \ {entity}]

RECURSIVE worker_destroy_all(_, _, _, _)
\* Entities are destroyed one after the other.
worker_destroy_all(E, entities, in_import, cause) ==
    IF entities = {} THEN E
    ELSE LET e == CHOOSE x \in entities : TRUE
         IN worker_destroy_all(worker_destroy(E, e, in_import, cause),
                               entities \ {e}, in_import, cause)

RECURSIVE created_dirty(_, _, _)
\* The loop of sync_dirty: created(entity) of every new dirty entity.
created_dirty(builder, entities, steps) ==
    IF entities = {} THEN builder
    ELSE LET e == CHOOSE x \in entities : TRUE
         IN created_dirty(Append(builder, echo_record(e, "created", "step", steps)),
                          entities \ {e}, steps)

\* A sync_dirty that forgets the new entities.
clear_dirty(E) ==
    [E EXCEPT !.dirty = {}]
\* island_worker::sync_dirty.
sync_dirty(E) ==
    [E EXCEPT !.m_delta_builder = created_dirty(@, E.dirty, E.steps),
              !.dirty = {}]

\* m_delta_builder->finish() and m_message_queue.send<island_delta>.
worker_send(E) ==
    [E EXCEPT !.to_coordinator = Append(@, E.m_delta_builder),
              !.sent = @ \o E.m_delta_builder,
              !.m_delta_builder = <<>>]

\* The broadphase of the worker: the manifolds of separated bodies are
\* destroyed, and make_contact_manifold makes one and marks it new.
worker_broadphase(E, separated, overlap) ==
    LET apart == worker_destroy_all(E, separated, FALSE, "step")
    IN IF overlap
       THEN [apart EXCEPT !.m_registry = @ \cup {"contact"},
                          !.dirty = @ \cup {"contact"},
                          !.seen = @ \cup {"contact"}]
       ELSE apart

\* narrowphase::update of the worker's registry: process_collision creates
\* a contact point of a manifold and marks it new; prune destroys the
\* separating points.
worker_narrowphase(E, new, separating) ==
    worker_destroy_all(
        IF new # "none"
        THEN [E EXCEPT !.m_registry = @ \cup {new}, !.dirty = @ \cup {new},
                       !.born[new] = E.steps]
        ELSE E,
        separating, FALSE, "step")

RECURSIVE worker_import(_, _, _)
\* island_delta::import into the worker's registry, m_importing_delta
\* being true: a created entity is created, a destroyed one destroyed.
worker_import(E, delta, i) ==
    IF i > Len(delta) THEN E
    ELSE worker_import(
             IF delta[i].op = "created"
             THEN [E EXCEPT !.m_registry = @ \cup {delta[i].entity}]
             ELSE [worker_destroy(E, delta[i].entity, TRUE, "import")
                      EXCEPT !.seen = @ \cup (IF delta[i].entity \in E.m_registry
                                              THEN {"worker_destroyed"} ELSE {})],
             delta, i + 1)

RECURSIVE worker_process_messages(_)
\* process_messages of the worker: on_island_delta of every delta.
worker_process_messages(E) ==
    IF E.to_worker = <<>> THEN E
    ELSE worker_process_messages(
             [worker_import(E, Head(E.to_worker), 1) EXCEPT !.to_worker = Tail(@)])

\* island_coordinator::on_construct_graph_node and on_construct_graph_edge.
coordinator_on_construct_graph(E, entity, in_import, cause) ==
    IF in_import THEN E
    ELSE [E EXCEPT !.m_new_graph = @ \cup {[entity |-> entity, cause |-> cause]}]

RECURSIVE coordinator_destroy_points(_, _, _)
\* island_coordinator::on_destroy_contact_manifold, after its early
\* returns: the points are destroyed and the worker is told.
coordinator_destroy_points(E, points, cause) ==
    IF points = {} THEN E
    ELSE LET contact_entity == CHOOSE p \in points : TRUE
         IN coordinator_destroy_points(
                [E EXCEPT !.registry = @ \ {contact_entity},
                          !.ctx_builder = Append(@, echo_record(contact_entity,
                                                     "destroyed", cause, E.steps))],
                points \ {contact_entity}, cause)

\* island_coordinator::on_destroy_island_resident (and, of a body that is
\* not procedural, on_destroy_multi_island_resident).
coordinator_on_destroy_resident(E, entity, in_import, cause) ==
    IF in_import THEN E
    ELSE LET told == [E EXCEPT !.ctx_builder =
                         Append(@, echo_record(entity, "destroyed", cause, E.steps))]
         IN IF entity \in EchoEdges
            THEN coordinator_destroy_points(told, manifold_points(E.registry, entity), cause)
            ELSE told

\* registry.destroy(entity) in the coordinator.
coordinator_destroy(E, entity, in_import, cause) ==
    IF entity \notin E.registry THEN E
    ELSE [coordinator_on_destroy_resident(E, entity, in_import, cause)
             EXCEPT !.registry = @ \ {entity}]

RECURSIVE coordinator_import(_, _, _)
\* island_delta::import into the main registry and the loops of
\* island_coordinator::on_island_delta, m_importing_delta being true: a
\* body gets its graph_node and a manifold its graph_edge.
coordinator_import(E, delta, i) ==
    IF i > Len(delta) THEN E
    ELSE coordinator_import(
             IF delta[i].op = "created"
             THEN [(IF delta[i].entity \in EchoNodes \cup EchoEdges
                    THEN coordinator_on_construct_graph(E, delta[i].entity, TRUE, "import")
                    ELSE E)
                      EXCEPT !.registry = @ \cup {delta[i].entity},
                             !.seen = @ \cup (IF delta[i].entity \in EchoEdges
                                              THEN {"coordinator_created"} ELSE {})]
             ELSE [coordinator_destroy(E, delta[i].entity, TRUE, "import")
                      EXCEPT !.seen = @ \cup (IF delta[i].entity \in E.registry
                                              THEN {"coordinator_destroyed"} ELSE {})],
             delta, i + 1)

RECURSIVE created_new(_, _, _)
\* init_new_nodes_and_edges: the worker is told of every new node and edge.
created_new(builder, entities, steps) ==
    IF entities = {} THEN builder
    ELSE LET e == CHOOSE x \in entities : TRUE
         IN created_new(Append(builder, echo_record(e.entity, "created", e.cause, steps)),
                        entities \ {e}, steps)

\* island_worker::update in the state step when should_step is false: the
\* messages are processed.
echo_process_messages ==
    /\ ~echo.m_splitting /\ echo.to_worker # <<>>
    /\ echo' = worker_process_messages(echo)
    /\ UNCHANGED OTHERS_ECHO

\* island_worker::update in the state step when should_step is true and
\* no phase is parallel: process_messages, the broadphase, run_narrowphase,
\* and finish_step with its sync and its request of a split.
echo_step(separated, overlap, new, separating, ret) ==
    /\ ~echo.m_splitting /\ echo.steps < MaxEchoSteps
    /\ Len(echo.to_coordinator) < MaxEchoQueue
    /\ LET begun == [worker_process_messages(echo) EXCEPT !.steps = @ + 1]
           bphase == worker_broadphase(begun, separated, overlap)
           nphase == worker_narrowphase(sync_dirty(bphase), new, separating)
           synced == worker_send(sync_dirty(nphase))
       IN /\ separated \subseteq EchoEdges \cap begun.m_registry
          /\ overlap => /\ "contact" \notin begun.seen
                        /\ EchoNodes \subseteq begun.m_registry
          /\ new # "none" => /\ echo.born[new] = 0
                             /\ manifold_of(new) \in bphase.m_registry
          /\ separating \subseteq (EchoPoints \cap bphase.m_registry) \cup {new}
          /\ echo' = IF synced.m_topology_changed
                     THEN [synced EXCEPT !.m_topology_changed = FALSE,
                                         !.m_splitting = ret]
                     ELSE synced
    /\ UNCHANGED OTHERS_ECHO

\* island_worker::split, called by the coordinator: bodyB leaves the worker
\* when no manifold connects it to bodyA.
echo_split ==
    /\ echo.m_splitting
    /\ Len(echo.to_coordinator) < MaxEchoQueue
    /\ LET handled == worker_process_messages(echo)
           single == \/ "bodyB" \notin handled.m_registry
                     \/ EchoEdges \cap handled.m_registry # {}
           smaller == worker_destroy_all(handled, {"bodyB"}, FALSE, "split")
       IN echo' = IF single THEN [handled EXCEPT !.m_splitting = FALSE]
                  ELSE [worker_send(smaller) EXCEPT
                           !.m_splitting = FALSE,
                           !.seen = @ \cup {"split_destroyed"}]
    /\ UNCHANGED OTHERS_ECHO

\* The user makes bodyB, or the manifold between the two bodies.
echo_user_create(entity) ==
    /\ entity \in {"bodyB", "manifold"} /\ entity \notin echo.seen
    /\ entity = "manifold" => "bodyB" \in echo.registry
    /\ echo' = [coordinator_on_construct_graph(echo, entity, FALSE, "user")
                   EXCEPT !.registry = @ \cup {entity}, !.seen = @ \cup {entity}]
    /\ UNCHANGED OTHERS_ECHO

\* The user destroys a manifold, or bodyB once it has no manifold.
echo_user_destroy(entity) ==
    /\ entity \in {"bodyB"} \cup EchoEdges /\ entity \in echo.registry
    /\ \A e \in echo.m_new_graph : e.entity # entity
    /\ entity = "bodyB" => EchoEdges \cap echo.registry = {}
    /\ echo' = coordinator_destroy(echo, entity, FALSE, "user")
    /\ UNCHANGED OTHERS_ECHO

RECURSIVE coordinator_read_messages(_)
\* read_messages of the island's context: on_island_delta of every delta.
coordinator_read_messages(E) ==
    IF E.to_coordinator = <<>> THEN E
    ELSE coordinator_read_messages(
             [coordinator_import(E, Head(E.to_coordinator), 1)
                 EXCEPT !.to_coordinator = Tail(@),
                        !.received = @ \o Head(E.to_coordinator)])

\* island_coordinator::update: the deltas of the worker are imported, the
\* new nodes and edges are put in the island, and sync sends the builder.
echo_update ==
    /\ \/ echo.to_coordinator # <<>> \/ echo.m_new_graph # {} \/ echo.ctx_builder # <<>>
    /\ Len(echo.to_worker) < MaxEchoQueue
    /\ LET imported == coordinator_read_messages(echo)
           built == [imported EXCEPT
                        !.ctx_builder = created_new(@, imported.m_new_graph, imported.steps),
                        !.m_new_graph = {}]
       IN echo' = IF built.ctx_builder = <<>> THEN built
                  ELSE [built EXCEPT !.to_worker = Append(@, built.ctx_builder),
                                     !.ctx_builder = <<>>]
    /\ UNCHANGED OTHERS_ECHO

EchoNext ==
    \/ echo_process_messages
    \/ \E separated \in SUBSET EchoEdges, overlap \in BOOLEAN,
          new \in {"none"} \cup EchoPoints,
          separating \in SUBSET EchoPoints, ret \in BOOLEAN :
          echo_step(separated, overlap, new, separating, ret)
    \/ echo_split
    \/ \E entity \in EchoEntities : echo_user_create(entity)
    \/ \E entity \in EchoEntities : echo_user_destroy(entity)
    \/ echo_update

EchoSpec == Init /\ [][EchoNext]_vars

\* What the worker has told or is about to tell the coordinator, and what
\* the coordinator is about to tell the worker.
told_by_worker == echo.sent \o echo.m_delta_builder
RECURSIVE flatten(_)
flatten(deltas) ==
    IF deltas = <<>> THEN <<>> ELSE Head(deltas) \o flatten(Tail(deltas))
told_by_coordinator == flatten(echo.to_worker) \o echo.ctx_builder

\* C36: what a worker destroys while it imports a delta or while it splits
\* is in none of its deltas, and what the coordinator creates or destroys
\* while it imports a worker's delta is in none of the deltas it sends to
\* that worker.
C36_NoEcho ==
    /\ \A k \in DOMAIN told_by_worker :
          told_by_worker[k].cause \notin {"import", "split"}
    /\ \A k \in DOMAIN told_by_coordinator :
          told_by_coordinator[k].cause # "import"
    /\ \A e \in echo.m_new_graph : e.cause # "import"
C36_Witness ==
    /\ {"worker_destroyed", "split_destroyed",
        "coordinator_created", "coordinator_destroyed"} \subseteq echo.seen
    /\ echo.m_delta_builder = <<>> /\ echo.ctx_builder = <<>>
    /\ echo.to_worker = <<>> /\ echo.to_coordinator = <<>>

\* C38: a contact point the worker created in one step and destroyed in a
\* later one is in the deltas sent to the coordinator as created before it
\* is in them as destroyed.
C38_CreatedBeforeDestroyed ==
    \A j \in DOMAIN echo.sent :
        (/\ echo.sent[j].op = "destroyed"
         /\ echo.sent[j].entity \in EchoPoints
         /\ echo.born[echo.sent[j].entity] > 0
         /\ echo.born[echo.sent[j].entity] < echo.sent[j].step)
        => \E i \in 1 .. (j - 1) : /\ echo.sent[i].op = "created"
                                   /\ echo.sent[i].entity = echo.sent[j].entity
C38_Witness ==
    \E j \in DOMAIN echo.received : \E i \in 1 .. (j - 1) :
        /\ echo.received[j].op = "destroyed" /\ echo.received[i].op = "created"
        /\ echo.received[i].entity = echo.received[j].entity
        /\ echo.received[i].entity \in EchoPoints
        /\ echo.received[i].step < echo.received[j].step


(***************************************************************************)
(* The jobs of parallel_for and the context they share.  Every job has its *)
(* own place in parallel_for_job_func and its own locals of steal();       *)
(* after records an access to the context once it is deleted.              *)
(***************************************************************************)
OTHERS_PFOR == <<manager_vars, worker_vars, importing, stores, loop, sleep, broadphase, contacts, rowcache, stepper, ecs, s11n, motion, dirties, echo>>

\* An access to *ctx.
touch(P) == [P EXCEPT !.after = @ \/ P.ctx = "deleted"]

\* A parallel_for that does not count its child job.
parallel_for_alone(P, first, last, step) ==
    [P EXCEPT !.ctx = "alive",
              !.pool = [no_loops EXCEPT !.phase = "running", !.m_first = first,
                                        !.m_last = last, !.m_step = step,
                                        !.m_loops = <<for_loop_range(first, last)>>,
                                        !.m_counter = 1],
              !.m_num_jobs = 1,
              !.jobs[0] = [pc |-> "run", steal |-> no_job, loop |-> 1],
              !.jobs[1].pc = "queued"]
\* parallel_for up to loop->run(): new ctx, the first steal() makes the
\* loop of the whole range, the two fetch_adds, and the child job is
\* dispatched.
parallel_for_begin(P, first, last, step) ==
    [P EXCEPT !.ctx = "alive",
              !.pool = [no_loops EXCEPT !.phase = "running", !.m_first = first,
                                        !.m_last = last, !.m_step = step,
                                        !.m_loops = <<for_loop_range(first, last)>>,
                                        !.m_counter = 1],
              !.m_num_jobs = 2,
              !.jobs[0] = [pc |-> "run", steal |-> no_job, loop |-> 1],
              !.jobs[1].pc = "queued"]

\* The child job a job dispatches: the first that was never dispatched.
next_job(P) == CHOOSE n \in JobIds : /\ P.jobs[n].pc = "none"
                                     /\ \A m \in JobIds : P.jobs[m].pc = "none" => n <= m

\* A parallel_for_job_func that dispatches its child job before it steals.
dispatch_then_steal(P, j) ==
    [touch(P) EXCEPT !.m_num_jobs = @ + 1,
                     !.jobs[next_job(P)].pc = "queued",
                     !.jobs[j].pc = "steal",
                     !.jobs[j].steal = [no_job EXCEPT !.pc = "queued"]]
\* parallel_for_job_func up to its call of steal().
job_begin(P, j) ==
    [touch(P) EXCEPT !.jobs[j].pc = "steal",
                     !.jobs[j].steal = [no_job EXCEPT !.pc = "queued"]]

\* A step of steal() in job j, with the locals of j; a null loop ends
\* the job, a loop is run after the child job is dispatched.
job_steal(P, j) ==
    LET at == P.jobs[j].steal.pc
        L == [P.pool EXCEPT !.job = P.jobs[j].steal]
        stolen == CASE at = "queued" -> steal_load(L)
                    [] at = "increment" -> steal_increment(L)
                    [] at = "store" -> steal_store(L)
                    [] at = "reload" -> steal_emplace(L)
        pool == [stolen EXCEPT !.job = no_job]
    IN IF at = "reload"
       THEN [touch(P) EXCEPT !.pool = pool,
                             !.jobs[j] = [pc |-> "add", steal |-> no_job,
                                          loop |-> Len(stolen.m_loops)]]
       ELSE IF stolen.job.pc = "none" /\ ~stolen.fault
       THEN [touch(P) EXCEPT !.pool = pool, !.jobs[j].pc = "sub", !.jobs[j].steal = no_job]
       ELSE [touch(P) EXCEPT !.pool = pool, !.jobs[j].steal = stolen.job]

\* ctx->m_num_jobs.fetch_add(1) for the child job.
job_add(P, j) ==
    [touch(P) EXCEPT !.m_num_jobs = @ + 1, !.jobs[j].pc = "async"]

\* ctx->m_dispatcher->async(child_job).
job_async(P, j) ==
    [touch(P) EXCEPT !.jobs[next_job(P)].pc = "queued", !.jobs[j].pc = "run"]

\* loop->run() of job j, a step of it; the caller waits when its loop is
\* done, a child job leaves.
job_run(P, j) ==
    LET k == P.jobs[j].loop
        ran == CASE P.pool.m_loops[k].pc = "load" -> run_load(P.pool, k)
                 [] P.pool.m_loops[k].pc = "check" -> run_check(P.pool, k)
                 [] P.pool.m_loops[k].pc = "call" -> run_call(P.pool, k)
    IN [touch(P) EXCEPT !.pool = ran,
                        !.jobs[j].pc = IF ran.m_loops[k].pc = "done"
                                       THEN (IF j = 0 THEN "wait" ELSE "sub")
                                       ELSE "run"]

\* The deferred fetch_sub of a job.
job_sub(P, j) ==
    [touch(P) EXCEPT !.m_num_jobs = @ - 1,
                     !.jobs[j].pc = IF P.m_num_jobs - 1 = 0 THEN "delete" ELSE "gone"]

\* delete ctx.
job_delete(P, j) ==
    [P EXCEPT !.ctx = "deleted", !.after = @ \/ P.ctx = "deleted",
              !.deletes = IF @ < 2 THEN @ + 1 ELSE @, !.deleter = j,
              !.jobs[j].pc = "gone"]

pfor_call(first, last, step) ==
    /\ pfor.ctx = "none" /\ first <= last
    /\ pfor' = parallel_for_begin(pfor, first, last, step)
    /\ UNCHANGED OTHERS_PFOR

pfor_job_begin(j) ==
    /\ ~pfor.pool.fault /\ ~pfor.after
    /\ j # 0 /\ pfor.jobs[j].pc = "queued"
    /\ pfor' = job_begin(pfor, j)
    /\ UNCHANGED OTHERS_PFOR

pfor_job_steal(j) ==
    /\ ~pfor.pool.fault /\ ~pfor.after
    /\ pfor.jobs[j].pc = "steal"
    /\ pfor' = job_steal(pfor, j)
    /\ UNCHANGED OTHERS_PFOR

pfor_job_add(j) ==
    /\ ~pfor.pool.fault /\ ~pfor.after
    /\ pfor.jobs[j].pc = "add"
    /\ pfor' = job_add(pfor, j)
    /\ UNCHANGED OTHERS_PFOR

pfor_job_async(j) ==
    /\ ~pfor.pool.fault /\ ~pfor.after
    /\ pfor.jobs[j].pc = "async"
    /\ \E n \in JobIds : pfor.jobs[n].pc = "none"
    /\ pfor' = job_async(pfor, j)
    /\ UNCHANGED OTHERS_PFOR

pfor_job_run(j) ==
    /\ ~pfor.pool.fault /\ ~pfor.after
    /\ pfor.jobs[j].pc = "run"
    /\ pfor' = job_run(pfor, j)
    /\ UNCHANGED OTHERS_PFOR

\* ctx->m_loop_pool.wait() returns in the caller.
pfor_wait ==
    /\ ~pfor.pool.fault /\ ~pfor.after
    /\ pfor.jobs[0].pc = "wait"
    /\ mutex_counter_wait(pfor.pool)
    /\ pfor' = [touch(pfor) EXCEPT !.pool.phase = "returned", !.jobs[0].pc = "sub"]
    /\ UNCHANGED OTHERS_PFOR

pfor_job_sub(j) ==
    /\ ~pfor.pool.fault /\ ~pfor.after
    /\ pfor.jobs[j].pc = "sub"
    /\ pfor' = job_sub(pfor, j)
    /\ UNCHANGED OTHERS_PFOR

pfor_job_delete(j) ==
    /\ ~pfor.pool.fault /\ ~pfor.after
    /\ pfor.jobs[j].pc = "delete"
    /\ pfor' = job_delete(pfor, j)
    /\ UNCHANGED OTHERS_PFOR

PforNext ==
    \/ \E first \in 0..1 : \E last \in 0..MaxLast : \E step \in 1..MaxStep :
          pfor_call(first, last, step)
    \/ \E j \in JobIds : pfor_job_begin(j)
    \/ \E j \in JobIds : pfor_job_steal(j)
    \/ \E j \in JobIds : pfor_job_add(j)
    \/ \E j \in JobIds : pfor_job_async(j)
    \/ \E j \in JobIds : pfor_job_run(j)
    \/ pfor_wait
    \/ \E j \in JobIds : pfor_job_sub(j)
    \/ \E j \in JobIds : pfor_job_delete(j)

PforSpec == Init /\ [][PforNext]_vars

\* C39: no two jobs are inside steal() at the same time.
C39_StealNeverInParallel ==
    ~pfor.pool.fault =>
        Cardinality({j \in JobIds : pfor.jobs[j].pc = "steal"}) <= 1
C39_Witness ==
    /\ ~pfor.pool.fault
    /\ \E j \in JobIds : /\ pfor.jobs[j].pc = "steal"
                         /\ pfor.jobs[j].steal.pc = "store"
    /\ Cardinality({j \in JobIds : pfor.jobs[j].pc = "run"}) >= 2

finished(j) == pfor.jobs[j].pc \in {"none", "gone"}

\* C40: the context is deleted once, by the job that finishes last, and no
\* job accesses the context or a loop of it once it is deleted.
C40_ContextDeletedOnceByLast ==
    ~pfor.pool.fault =>
        /\ pfor.deletes <= 1
        /\ ~pfor.after
        /\ pfor.ctx = "deleted" => \A j \in JobIds : finished(j)
        /\ (pfor.ctx = "alive" /\ pfor.m_num_jobs = 0) =>
               \E j \in JobIds : pfor.jobs[j].pc = "delete"
        /\ (pfor.ctx = "alive" /\ \A j \in JobIds : finished(j)) => FALSE
C40_Witness ==
    /\ ~pfor.pool.fault
    /\ pfor.ctx = "deleted" /\ pfor.deletes = 1 /\ pfor.deleter # 0
    /\ Len(pfor.pool.m_loops) >= 3
    /\ \A j \in JobIds : finished(j)

====
